---- MODULE Spec2Model ----
(***************************************************************************)
(* A model of the o5m codec of vadeen_osm: the VarInt codec, the delta     *)
(* register bank, the string reference table, the binary encoder           *)
(* (O5mWriter / O5mEncoder), the binary decoder (O5mReader / O5mDecoder)   *)
(* and the Osm container the two work on.                                  *)
(*                                                                         *)
(* Conventions.                                                            *)
(*  - A byte is an integer in 0..255, a byte string (Vec<u8>, and a Rust    *)
(*    String seen through its UTF-8 bytes) is a sequence of bytes.         *)
(*  - Option<T> is a sequence of length at most one: None == <<>>,         *)
(*    Some(x) == <<x>>.                                                    *)
(*  - A Result is a record [st, ..., v, msg]: st = "ok" carries the value  *)
(*    v; st = "parse" is Error{ParseError, Some(msg)}; st = "eof" is the   *)
(*    io::Error UnexpectedEof converted by From<io::Error> (message None); *)
(*    st = "panic" is a Rust panic (unwinding out of read).                *)
(*  - TLC's integers are 32 bits wide.  i32 is therefore modelled as a     *)
(*    two's complement integer of I32Bits bits, and the fixed point unit   *)
(*    of a coordinate is scaled with it (COORD_PRECISION); i64 and u64     *)
(*    values stay far below their limits in every input drawn here.        *)
(***************************************************************************)
EXTENDS Integers, Sequences, FiniteSets, TLC

VARIABLES
    osm,        \* the Osm container built through add_node / add_way / add_relation
    writer,     \* the O5mWriter: inner (bytes written so far) and encoder state
    rphase,     \* where O5mReader::read stands: "idle", "reading", "ok", "err", "panic"
    decoder,    \* the O5mDecoder of the reader
    rosm,       \* the Osm the reader is assembling
    rerr,       \* the Error read returned (when rphase = "err")
    vi,         \* the VarInt harness: value, written bytes, read result
    xml,        \* XmlReader::read: the events left, the line, the Osm, the phase
    tbl,        \* a StringReferenceTable and the result of the last call on it
    dl          \* the DeltaState of an encoder and of a decoder fed with its deltas

vars == <<osm, writer, rphase, decoder, rosm, rerr, vi, xml, tbl, dl>>

(***************************************************************************)
(* Bounds of the model.                                                    *)
(***************************************************************************)
I32Bits == 9
MaxElements == 3
MaxInputLen == 3
MaxVarIntBits == 28
MaxRef == 3
MaxStreamLen == 11
MaxVarIntLen == 3
MaxTableOps == 3
MaxRings == 2
I64Bits == 12
MaxDeltaSteps == 2

(***************************************************************************)
(* Small helpers.                                                          *)
(***************************************************************************)
None == <<>>
Some(x) == <<x>>
IsSome(o) == Len(o) = 1

RECURSIVE Pow2(_)
Pow2(n) == IF n = 0 THEN 1 ELSE 2 * Pow2(n - 1)

Front(s) == SubSeq(s, 1, Len(s) - 1)

\* `let x = ...; rest`: the value x handed to the rest of the function.
Let(x, Rest(_)) == Rest(x)

\* The same for a long chain of statements: x is evaluated before the rest.
Then(x, Rest(_)) == [v \in {x} |-> Rest(v)][x]

\* `let x = ...?; rest`: an Err (or a panic) is returned at once, an Ok is
\* handed to the rest of the function.
Try(r, Rest(_)) == IF r.st = "ok" THEN Rest(r) ELSE r

\* `x as i32`: truncation to the low bits, read as two's complement.
AsI32(x) == ((x + Pow2(I32Bits - 1)) % Pow2(I32Bits)) - Pow2(I32Bits - 1)
I32_MIN == 0 - Pow2(I32Bits - 1)
I32_MAX == Pow2(I32Bits - 1) - 1

(***************************************************************************)
(* osm_io/o5m/varint.rs                                                    *)
(***************************************************************************)
\* From<u64> for VarInt: 7 bit groups, least significant first.
RECURSIVE VarInt_from_u64(_)
VarInt_from_u64(value) ==
    IF value > 127
    THEN <<(value % 128) + 128>> \o VarInt_from_u64(value \div 128)
    ELSE IF value > 0 THEN <<value>> ELSE <<>>

\* From<u32> for VarInt.
VarInt_from_u32(value) == VarInt_from_u64(value)

\* From<i64> for VarInt: sign in bit 0 of the first byte, six payload bits,
\* the rest as an unsigned VarInt.
VarInt_from_i64(v) ==
    LET sign_bit == IF v < 0 THEN 1 ELSE 0
        value == IF v < 0 THEN (0 - v) - 1 ELSE v
        least_significant == ((value % 64) * 2) + sign_bit
    IN  IF value > 63
        THEN <<least_significant + 128>> \o VarInt_from_u64(value \div 64)
        ELSE <<least_significant>>

\* From<i32> for VarInt.
VarInt_from_i32(v) == VarInt_from_i64(v)

\* VarInt::into_u64: groups are added up until a byte without continuation
\* bit, or until the bytes end.
RECURSIVE into_u64(_)
into_u64(bytes) ==
    IF bytes = <<>> THEN 0
    ELSE (Head(bytes) % 128)
         + (IF Head(bytes) >= 128 THEN 128 * into_u64(Tail(bytes)) ELSE 0)

\* VarInt::into_i64.  split_first().unwrap() panics on no bytes; the callers
\* below only pass what read_varint returned, which is never empty.
into_i64(bytes) ==
    LET byte == Head(bytes)
        negative == (byte % 2) = 1
        low == (byte % 128) \div 2
        value == IF byte >= 128 THEN low + 64 * into_u64(Tail(bytes)) ELSE low
    IN  IF negative THEN (0 - value) - 1 ELSE value

(***************************************************************************)
(* A byte source: `data` with `off` bytes consumed, seen through           *)
(* std::io::Take with `take` bytes of budget left (a plain slice is a      *)
(* source whose budget is its length).                                     *)
(***************************************************************************)
SliceReader(bytes) == [data |-> bytes, off |-> 0, take |-> Len(bytes)]

ROk(r, v) == [st |-> "ok", r |-> r, v |-> v, msg |-> ""]
REof(r) == [st |-> "eof", r |-> r, v |-> 0, msg |-> ""]
RParse(r, m) == [st |-> "parse", r |-> r, v |-> 0, msg |-> m]

\* read_exact of one byte through Take.
read_exact1(r) ==
    IF r.take = 0 \/ r.off >= Len(r.data)
    THEN REof(r)
    ELSE ROk([r EXCEPT !.off = @ + 1, !.take = @ - 1], r.data[r.off + 1])

\* A reader without the overflow round: it reads on until a byte without
\* continuation bit.
RECURSIVE read_varint_unbounded_loop(_, _)
read_varint_unbounded_loop(r, bytes) ==
    LET b == read_exact1(r)
    IN  IF b.st /= "ok" THEN b
        ELSE IF b.v < 128 THEN ROk(b.r, bytes \o <<b.v>>)
        ELSE read_varint_unbounded_loop(b.r, bytes \o <<b.v>>)

read_varint_unbounded(r) == read_varint_unbounded_loop(r, <<>>)

\* ReadVarInt::read_varint: `for i in 0..10`, the tenth round is the overflow.
RECURSIVE read_varint_loop(_, _, _)
read_varint_loop(r, bytes, i) ==
    IF i = 9
    THEN RParse(r, "Varint overflow, read 9 bytes.")
    ELSE LET b == read_exact1(r)
         IN  IF b.st /= "ok" THEN b
             ELSE IF b.v < 128 THEN ROk(b.r, bytes \o <<b.v>>)
             ELSE read_varint_loop(b.r, bytes \o <<b.v>>, i + 1)

read_varint(r) == read_varint_loop(r, <<>>, 0)

\* WriteVarInt::write_varint on a Vec<u8>: the bytes of the VarInt are appended.
write_varint_u64(out, x) == out \o VarInt_from_u64(x)
write_varint_i64(out, x) == out \o VarInt_from_i64(x)

(***************************************************************************)
(* osm_io/o5m.rs: constants, string reference table, delta registers.      *)
(***************************************************************************)
MAX_STRING_TABLE_SIZE == 15000
MAX_STRING_REFERENCE_LENGTH == 250

O5M_HEADER_DATA == <<4, 111, 53, 109, 50>>
O5M_HEADER == 224
O5M_EOF == 254
O5M_RESET == 255
O5M_NODE == 16
O5M_WAY == 17
O5M_RELATION == 18
O5M_BOUNDING_BOX == 219

\* StringReferenceTable::new / clear: index 1 is the front of the VecDeque.
StringReferenceTable_new == <<>>

\* StringReferenceTable::get, idx starts at 1.
StringReferenceTable_get(table, idx) ==
    IF idx - 1 < Len(table)
    THEN [st |-> "ok", v |-> table[idx], msg |-> ""]
    ELSE [st |-> "parse", v |-> <<>>,
          msg |-> "String reference '" \o ToString(idx)
                  \o "' not found in table with size '"
                  \o ToString(Len(table)) \o "'."]

\* A push that never drops the oldest entry.
StringReferenceTable_push_unbounded(table, bytes) ==
    IF Len(bytes) > MAX_STRING_REFERENCE_LENGTH THEN table ELSE <<bytes>> \o table

\* StringReferenceTable::push.
StringReferenceTable_push(table, bytes) ==
    IF Len(bytes) > MAX_STRING_REFERENCE_LENGTH
    THEN table
    ELSE <<bytes>> \o (IF Len(table) = MAX_STRING_TABLE_SIZE THEN Front(table) ELSE table)

\* position(|b| b == &bytes): the first index holding `bytes`, 0 when absent.
TablePosition(table, bytes) ==
    IF \E i \in 1..Len(table) : table[i] = bytes
    THEN CHOOSE i \in 1..Len(table) :
            /\ table[i] = bytes
            /\ \A j \in 1..(i - 1) : table[j] /= bytes
    ELSE 0

\* A reference that counts positions from 0.
StringReferenceTable_reference_from_zero(table, bytes) ==
    IF Len(bytes) > MAX_STRING_REFERENCE_LENGTH
    THEN [table |-> table, bytes |-> bytes]
    ELSE IF TablePosition(table, bytes) > 0
    THEN [table |-> table, bytes |-> VarInt_from_u64(TablePosition(table, bytes) - 1)]
    ELSE [table |-> StringReferenceTable_push(table, bytes), bytes |-> bytes]

\* StringReferenceTable::reference: the bytes to write and the table afterwards.
StringReferenceTable_reference(table, bytes) ==
    IF Len(bytes) > MAX_STRING_REFERENCE_LENGTH
    THEN [table |-> table, bytes |-> bytes]
    ELSE IF TablePosition(table, bytes) > 0
    THEN [table |-> table, bytes |-> VarInt_from_u64(TablePosition(table, bytes))]
    ELSE [table |-> StringReferenceTable_push(table, bytes), bytes |-> bytes]

\* i64 in I64Bits bits, two's complement.
I64_MIN == 0 - Pow2(I64Bits - 1)
I64_MAX == Pow2(I64Bits - 1) - 1
AsI64(x) == ((x - I64_MIN) % Pow2(I64Bits)) + I64_MIN

\* i64 arithmetic as the build makes it: with overflow checks (debug profile)
\* a result outside i64 panics, without them (release profile) it wraps.
CheckedI64(x, build) ==
    IF x >= I64_MIN /\ x <= I64_MAX THEN [panic |-> FALSE, v |-> x]
    ELSE IF build = "debug" THEN [panic |-> TRUE, v |-> 0]
    ELSE [panic |-> FALSE, v |-> AsI64(x)]

\* DeltaValue::delta: id - self.state, and self.state = id.
DeltaValue_delta(state, id, build) ==
    Let(CheckedI64(id - state, build), LAMBDA r :
        [panic |-> r.panic, state |-> IF r.panic THEN state ELSE id, v |-> r.v])

\* DeltaValue::value: self.state += delta, and self.state.
DeltaValue_value(state, delta, build) ==
    Let(CheckedI64(state + delta, build), LAMBDA r :
        [panic |-> r.panic, state |-> IF r.panic THEN state ELSE r.v, v |-> r.v])

\* enum Delta.
Delta == {"Id", "Time", "Lat", "Lon", "ChangeSet", "WayRef",
          "RelNodeRef", "RelWayRef", "RelRelRef"}

\* DeltaState::new: every register 0.
DeltaState_new == [k \in Delta |-> 0]

\* DeltaState::encode (DeltaValue::delta): the delta and the registers afterwards.
DeltaState_encode(delta, k, value) ==
    [delta |-> [delta EXCEPT ![k] = value], v |-> value - delta[k]]

\* DeltaState::decode (DeltaValue::value).
DeltaState_decode(delta, k, d) ==
    [delta |-> [delta EXCEPT ![k] = @ + d], v |-> delta[k] + d]

(***************************************************************************)
(* geo.rs and lib.rs: coordinates, boundary, the Osm container.            *)
(***************************************************************************)
\* Fixed point units per degree.  The source has 1e7 units in an i32; the
\* model keeps the ratio between the unit and the integer width.
COORD_PRECISION == Pow2(I32Bits - 9)

Coordinate(lat, lon) == [lat |-> lat, lon |-> lon]

\* Boundary::inverted().
Boundary_inverted ==
    [min |-> Coordinate(90 * COORD_PRECISION, 180 * COORD_PRECISION),
     max |-> Coordinate((0 - 90) * COORD_PRECISION, (0 - 180) * COORD_PRECISION),
     freeze |-> FALSE]

\* An expand that does not look at the freeze flag.
Boundary_expand_frozen_too(b, c) ==
    [b EXCEPT
        !.max = Coordinate(IF c.lat > b.max.lat THEN c.lat ELSE b.max.lat,
                           IF c.lon > b.max.lon THEN c.lon ELSE b.max.lon),
        !.min = Coordinate(IF c.lat < b.min.lat THEN c.lat ELSE b.min.lat,
                           IF c.lon < b.min.lon THEN c.lon ELSE b.min.lon)]

\* Boundary::expand.
Boundary_expand(b, c) ==
    IF b.freeze THEN b
    ELSE [b EXCEPT
            !.max = Coordinate(IF c.lat > b.max.lat THEN c.lat ELSE b.max.lat,
                               IF c.lon > b.max.lon THEN c.lon ELSE b.max.lon),
            !.min = Coordinate(IF c.lat < b.min.lat THEN c.lat ELSE b.min.lat,
                               IF c.lon < b.min.lon THEN c.lon ELSE b.min.lon)]

Max(a, b) == IF a >= b THEN a ELSE b

\* Osm::default().  node_id_index is the set of (coordinate, id) pairs of the map.
Osm_default ==
    [boundary |-> Some(Boundary_inverted),
     nodes |-> <<>>, ways |-> <<>>, relations |-> <<>>,
     max_id |-> 0,
     node_id_index |-> {}]

\* An add_node that keeps the index entry a coordinate already has.
Osm_add_node_first_wins(o, node) ==
    [o EXCEPT
        !.boundary = IF IsSome(@) THEN Some(Boundary_expand(@[1], node.coordinate)) ELSE @,
        !.max_id = Max(@, node.id),
        !.node_id_index = IF \E e \in @ : e[1] = node.coordinate THEN @
                          ELSE @ \cup {<<node.coordinate, node.id>>},
        !.nodes = Append(@, node)]

\* Osm::add_node.
Osm_add_node(o, node) ==
    [o EXCEPT
        !.boundary = IF IsSome(@) THEN Some(Boundary_expand(@[1], node.coordinate)) ELSE @,
        !.max_id = Max(@, node.id),
        !.node_id_index = {e \in @ : e[1] /= node.coordinate}
                          \cup {<<node.coordinate, node.id>>},
        !.nodes = Append(@, node)]

\* Osm::add_way.
Osm_add_way(o, way) == [o EXCEPT !.ways = Append(@, way)]

\* Osm::add_relation.
Osm_add_relation(o, relation) == [o EXCEPT !.relations = Append(@, relation)]

\* Osm::find_node_id: HashMap::get(&coordinate).cloned().
Osm_find_node_id(o, coordinate) ==
    IF \E e \in o.node_id_index : e[1] = coordinate
    THEN Some((CHOOSE e \in o.node_id_index : e[1] = coordinate)[2])
    ELSE None

\* Meta { tags, version, author } as the o5m codec uses it.
Meta(tags, version, author) == [tags |-> tags, version |-> version, author |-> author]
Meta_default == Meta(<<>>, None, None)
Tag(key, value) == [key |-> key, value |-> value]
AuthorInformation(created, change_set, uid, user) ==
    [created |-> created, change_set |-> change_set, uid |-> uid, user |-> user]
Node(id, coordinate, meta) == [id |-> id, coordinate |-> coordinate, meta |-> meta]
Way(id, refs, meta) == [id |-> id, refs |-> refs, meta |-> meta]
Relation(id, members, meta) == [id |-> id, members |-> members, meta |-> meta]
RelationMember(kind, id, role) == [kind |-> kind, id |-> id, role |-> role]

(***************************************************************************)
(* lib.rs: OsmBuilder.  The builder is its Osm; every call returns the Osm  *)
(* afterwards and what the call returns.                                    *)
(***************************************************************************)
\* "type", "multipolygon", "inner", "outer".
StrTypeKey == <<116, 121, 112, 101>>
StrMultipolygon == <<109, 117, 108, 116, 105, 112, 111, 108, 121, 103, 111, 110>>
StrInner == <<105, 110, 110, 101, 114>>
StrOuter == <<111, 117, 116, 101, 114>>

BOut(o, v) == [osm |-> o, v |-> v]

\* An add_node that hands out an id without storing a node.
OsmBuilder_add_node_unstored(o, coordinate, tags) ==
    BOut([o EXCEPT !.max_id = @ + 1], o.max_id + 1)

\* OsmBuilder::add_node: the id of the node at the coordinate when the index
\* resolves it, a new node with id max_id + 1 otherwise.
OsmBuilder_add_node(o, coordinate, tags) ==
    IF IsSome(Osm_find_node_id(o, coordinate))
    THEN BOut(o, Osm_find_node_id(o, coordinate)[1])
    ELSE BOut(Osm_add_node(o, Node(o.max_id + 1, coordinate, Meta(tags, None, None))),
              o.max_id + 1)

\* OsmBuilder::add_nodes.
RECURSIVE OsmBuilder_add_nodes(_, _)
OsmBuilder_add_nodes(o, coordinates) ==
    IF coordinates = <<>> THEN BOut(o, <<>>)
    ELSE Then(OsmBuilder_add_node(o, Head(coordinates), <<>>), LAMBDA n :
         Then(OsmBuilder_add_nodes(n.osm, Tail(coordinates)), LAMBDA rest :
             BOut(rest.osm, <<n.v>> \o rest.v)))

\* A next_id that hands out the current max_id.
OsmBuilder_next_id_stale(o) == BOut(o, o.max_id)

\* OsmBuilder::next_id.
OsmBuilder_next_id(o) == BOut([o EXCEPT !.max_id = @ + 1], o.max_id + 1)

\* OsmBuilder::add_polyline.
OsmBuilder_add_polyline(o, coordinates, tags) ==
    Then(OsmBuilder_add_nodes(o, coordinates), LAMBDA refs :
    Then(OsmBuilder_next_id(refs.osm), LAMBDA id :
        BOut(Osm_add_way(id.osm, Way(id.v, refs.v, Meta(tags, None, None))), id.v)))

\* OsmBuilder::add_polygon_relations: the inner ways first, the outer way last.
OsmBuilder_add_polygon_relations(o, outer, inner, tags) ==
    Then([i \in 1..Len(inner) |-> RelationMember("Way", inner[i], StrInner)]
        \o <<RelationMember("Way", outer, StrOuter)>>, LAMBDA members :
    Then(OsmBuilder_next_id(o), LAMBDA id :
        BOut(Osm_add_relation(id.osm, Relation(id.v, members, Meta(tags, None, None))),
             id.v)))

\* The loop of add_multipolygon: add_polyline(part, vec![]) for every part.
RECURSIVE PolygonWays(_, _)
PolygonWays(o, parts) ==
    IF parts = <<>> THEN BOut(o, <<>>)
    ELSE Then(OsmBuilder_add_polyline(o, Head(parts), <<>>), LAMBDA w :
         Then(PolygonWays(w.osm, Tail(parts)), LAMBDA rest :
             BOut(rest.osm, <<w.v>> \o rest.v)))

\* A loop of add_multipolygon that gives every way the tags of the polygon.
RECURSIVE PolygonWaysTagged(_, _, _)
PolygonWaysTagged(o, parts, tags) ==
    IF parts = <<>> THEN BOut(o, <<>>)
    ELSE Then(OsmBuilder_add_polyline(o, Head(parts), tags), LAMBDA w :
         Then(PolygonWaysTagged(w.osm, Tail(parts), tags), LAMBDA rest :
             BOut(rest.osm, <<w.v>> \o rest.v)))

\* An add_multipolygon whose ways carry the tags of the polygon.
OsmBuilder_add_multipolygon_tagged_ways(o, parts, tags) ==
    Then(PolygonWaysTagged(o, parts, tags), LAMBDA polygon_ids :
        OsmBuilder_add_polygon_relations(polygon_ids.osm, Head(polygon_ids.v),
            Tail(polygon_ids.v), tags \o <<Tag(StrTypeKey, StrMultipolygon)>>))

\* OsmBuilder::add_multipolygon, parts not empty.
OsmBuilder_add_multipolygon(o, parts, tags) ==
    Then(PolygonWays(o, parts), LAMBDA polygon_ids :
        OsmBuilder_add_polygon_relations(polygon_ids.osm, Head(polygon_ids.v),
            Tail(polygon_ids.v), tags \o <<Tag(StrTypeKey, StrMultipolygon)>>))

\* OsmBuilder::add_polygon, parts not empty.
OsmBuilder_add_polygon(o, parts, tags) ==
    IF Len(parts) = 1 THEN OsmBuilder_add_polyline(o, parts[1], tags)
    ELSE OsmBuilder_add_multipolygon(o, parts, tags)

\* OsmBuilder::add_point.
OsmBuilder_add_point(o, coordinate, tags) == OsmBuilder_add_node(o, coordinate, tags)

(***************************************************************************)
(* osm_io/o5m/writer.rs: O5mEncoder.  An encoder is [string_table, delta]; *)
(* every write returns the encoder afterwards and the bytes it produced.   *)
(***************************************************************************)
O5mEncoder_new == [string_table |-> StringReferenceTable_new, delta |-> DeltaState_new]

\* A reset that zeroes the deltas and keeps the string table.
O5mEncoder_reset_keeping_table(e) ==
    [O5mEncoder_new EXCEPT !.string_table = e.string_table]

\* O5mEncoder::reset.
O5mEncoder_reset(e) == O5mEncoder_new

EOut(e, bytes) == [e |-> e, bytes |-> bytes]

\* The encoder with register k set by DeltaState::encode, and the delta.
EncDelta(e, k, value) ==
    [e |-> [e EXCEPT !.delta = DeltaState_encode(e.delta, k, value).delta],
     v |-> DeltaState_encode(e.delta, k, value).v]

\* The encoder after passing `bytes` through its string table, and what to write.
EncReference(e, bytes) ==
    Let(StringReferenceTable_reference(e.string_table, bytes), LAMBDA r :
        EOut([e EXCEPT !.string_table = r.table], r.bytes))

\* O5mEncoder::write_user.
O5mEncoder_write_user(e, uid, username) ==
    EncReference(e, <<0>> \o VarInt_from_u64(uid) \o <<0>> \o username \o <<0>>)

\* O5mEncoder::string_pair_to_bytes.
O5mEncoder_string_pair_to_bytes(e, key, value) ==
    EncReference(e, <<0>> \o key \o <<0>> \o value \o <<0>>)

\* O5mEncoder::write_tag.
O5mEncoder_write_tag(e, tag) == O5mEncoder_string_pair_to_bytes(e, tag.key, tag.value)

\* `for tag in &meta.tags { self.write_tag(writer, &tag)?; }`
RECURSIVE EncTags(_, _)
EncTags(e, tags) ==
    IF tags = <<>> THEN EOut(e, <<>>)
    ELSE Let(O5mEncoder_write_tag(e, Head(tags)), LAMBDA h :
         Let(EncTags(h.e, Tail(tags)), LAMBDA t :
             EOut(t.e, h.bytes \o t.bytes)))

\* O5mEncoder::write_meta.
O5mEncoder_write_meta(e, meta) ==
    IF IsSome(meta.version)
    THEN IF IsSome(meta.author)
         THEN Let(EncDelta(e, "Time", meta.author[1].created), LAMBDA t :
              Let(EncDelta(t.e, "ChangeSet", meta.author[1].change_set), LAMBDA c :
              Let(O5mEncoder_write_user(c.e, meta.author[1].uid, meta.author[1].user),
                  LAMBDA u :
                  EOut(u.e, VarInt_from_u32(meta.version[1]) \o VarInt_from_i64(t.v)
                            \o VarInt_from_i64(c.v) \o u.bytes))))
         ELSE EOut(e, VarInt_from_u32(meta.version[1]) \o <<0>>)
    ELSE EOut(e, <<0>>)

\* O5mEncoder::delta_coordinate: each delta is cast to i32.
O5mEncoder_delta_coordinate(e, coordinate) ==
    Let(EncDelta(e, "Lat", coordinate.lat), LAMBDA la :
    Let(EncDelta(la.e, "Lon", coordinate.lon), LAMBDA lo :
        [e |-> lo.e, v |-> Coordinate(AsI32(la.v), AsI32(lo.v))]))

\* O5mEncoder::write_node.
O5mEncoder_write_node(e, node) ==
    Let(EncDelta(e, "Id", node.id), LAMBDA i :
    Let(O5mEncoder_delta_coordinate(i.e, node.coordinate), LAMBDA c :
    Let(O5mEncoder_write_meta(c.e, node.meta), LAMBDA m :
    Let(EncTags(m.e, node.meta.tags), LAMBDA t :
        EOut(t.e, VarInt_from_i64(i.v) \o m.bytes
                  \o VarInt_from_i32(c.v.lon) \o VarInt_from_i32(c.v.lat) \o t.bytes)))))

\* O5mEncoder::write_way_refs.
RECURSIVE O5mEncoder_write_way_refs(_, _)
O5mEncoder_write_way_refs(e, refs) ==
    IF refs = <<>> THEN EOut(e, <<>>)
    ELSE Let(EncDelta(e, "WayRef", Head(refs)), LAMBDA h :
         Let(O5mEncoder_write_way_refs(h.e, Tail(refs)), LAMBDA t :
             EOut(t.e, VarInt_from_i64(h.v) \o t.bytes)))

\* O5mEncoder::write_way.
O5mEncoder_write_way(e, way) ==
    Let(EncDelta(e, "Id", way.id), LAMBDA i :
    Let(O5mEncoder_write_way_refs(i.e, way.refs), LAMBDA r :
    Let(O5mEncoder_write_meta(r.e, way.meta), LAMBDA m :
    Let(EncTags(m.e, way.meta.tags), LAMBDA t :
        EOut(t.e, VarInt_from_i64(i.v) \o m.bytes
                  \o VarInt_from_u64(Len(r.bytes)) \o r.bytes \o t.bytes)))))

\* member_type.
member_type(member) ==
    CASE member.kind = "Node" -> <<48>>
      [] member.kind = "Way" -> <<49>>
      [] member.kind = "Relation" -> <<50>>

\* A delta_rel_member with one register for the members of all kinds.
O5mEncoder_delta_rel_member_shared(e, member) == EncDelta(e, "RelNodeRef", member.id)

\* O5mEncoder::delta_rel_member.
O5mEncoder_delta_rel_member(e, member) ==
    CASE member.kind = "Node" -> EncDelta(e, "RelNodeRef", member.id)
      [] member.kind = "Way" -> EncDelta(e, "RelWayRef", member.id)
      [] member.kind = "Relation" -> EncDelta(e, "RelRelRef", member.id)

\* O5mEncoder::write_rel_members.
RECURSIVE O5mEncoder_write_rel_members(_, _)
O5mEncoder_write_rel_members(e, members) ==
    IF members = <<>> THEN EOut(e, <<>>)
    ELSE Let(O5mEncoder_delta_rel_member(e, Head(members)), LAMBDA d :
         Let(EncReference(d.e, <<0>> \o member_type(Head(members))
                               \o Head(members).role \o <<0>>), LAMBDA s :
         Let(O5mEncoder_write_rel_members(s.e, Tail(members)), LAMBDA t :
             EOut(t.e, VarInt_from_i64(d.v) \o s.bytes \o t.bytes))))

\* O5mEncoder::write_relation: the members are encoded before the id and the meta.
O5mEncoder_write_relation(e, rel) ==
    Let(O5mEncoder_write_rel_members(e, rel.members), LAMBDA mb :
    Let(EncDelta(mb.e, "Id", rel.id), LAMBDA i :
    Let(O5mEncoder_write_meta(i.e, rel.meta), LAMBDA m :
    Let(EncTags(m.e, rel.meta.tags), LAMBDA t :
        EOut(t.e, VarInt_from_i64(i.v) \o m.bytes
                  \o VarInt_from_u64(Len(mb.bytes)) \o mb.bytes \o t.bytes)))))

(***************************************************************************)
(* osm_io/o5m/writer.rs: O5mWriter.  A writer is [inner, encoder].         *)
(***************************************************************************)
O5mWriter_new == [inner |-> <<>>, encoder |-> O5mEncoder_new]

\* O5mWriter::reset.
O5mWriter_reset(w) ==
    [inner |-> w.inner \o <<O5M_RESET>>, encoder |-> O5mEncoder_reset(w.encoder)]

\* type code, unsigned VarInt length, payload.
Frame(code, bytes) == <<code>> \o VarInt_from_u64(Len(bytes)) \o bytes

\* O5mWriter::write_bounding_box.
O5mWriter_write_bounding_box(w, boundary) ==
    [w EXCEPT !.inner = @ \o Frame(O5M_BOUNDING_BOX,
        VarInt_from_i32(boundary.min.lon) \o VarInt_from_i32(boundary.min.lat)
        \o VarInt_from_i32(boundary.max.lon) \o VarInt_from_i32(boundary.max.lat))]

\* O5mWriter::write_node.
O5mWriter_write_node(w, node) ==
    Let(O5mEncoder_write_node(w.encoder, node), LAMBDA r :
        [inner |-> w.inner \o Frame(O5M_NODE, r.bytes), encoder |-> r.e])

\* O5mWriter::write_way.
O5mWriter_write_way(w, way) ==
    Let(O5mEncoder_write_way(w.encoder, way), LAMBDA r :
        [inner |-> w.inner \o Frame(O5M_WAY, r.bytes), encoder |-> r.e])

\* O5mWriter::write_relation.
O5mWriter_write_relation(w, rel) ==
    Let(O5mEncoder_write_relation(w.encoder, rel), LAMBDA r :
        [inner |-> w.inner \o Frame(O5M_RELATION, r.bytes), encoder |-> r.e])

RECURSIVE WriteNodes(_, _)
WriteNodes(w, nodes) ==
    IF nodes = <<>> THEN w ELSE WriteNodes(O5mWriter_write_node(w, Head(nodes)), Tail(nodes))

RECURSIVE WriteWays(_, _)
WriteWays(w, ways) ==
    IF ways = <<>> THEN w ELSE WriteWays(O5mWriter_write_way(w, Head(ways)), Tail(ways))

RECURSIVE WriteRelations(_, _)
WriteRelations(w, rels) ==
    IF rels = <<>> THEN w
    ELSE WriteRelations(O5mWriter_write_relation(w, Head(rels)), Tail(rels))

\* The reset, the header and the optional bounding box of write.
WriteHeader(w, o) ==
    Let(O5mWriter_reset(w), LAMBDA w1 :
    Let([w1 EXCEPT !.inner = @ \o <<O5M_HEADER>> \o O5M_HEADER_DATA], LAMBDA w2 :
        IF IsSome(o.boundary) THEN O5mWriter_write_bounding_box(w2, o.boundary[1]) ELSE w2))

\* A write without the reset in front of the relations.
O5mWriter_write_three_resets(w, o) ==
    Let(WriteRelations(
            WriteWays(O5mWriter_reset(
                WriteNodes(O5mWriter_reset(WriteHeader(w, o)), o.nodes)), o.ways),
            o.relations), LAMBDA w6 :
        [w6 EXCEPT !.inner = @ \o <<O5M_EOF>>])

\* OsmWrite for O5mWriter::write.
O5mWriter_write(w, o) ==
    Let(WriteRelations(O5mWriter_reset(
            WriteWays(O5mWriter_reset(
                WriteNodes(O5mWriter_reset(WriteHeader(w, o)), o.nodes)), o.ways)),
            o.relations), LAMBDA w6 :
        [w6 EXCEPT !.inner = @ \o <<O5M_EOF>>])

(***************************************************************************)
(* osm_io/o5m/reader.rs: O5mDecoder.  A decoder is                         *)
(*   [inner, string_table, delta, limit, position, overflow_checks]        *)
(* where inner is the Take over the input and overflow_checks tells        *)
(* whether the build panics on integer overflow (debug and test profiles)  *)
(* or wraps (release profile).  A result is [st, d, v, msg].               *)
(***************************************************************************)
\* u64 arithmetic that wraps: the modulus of the model.
U64_MODULUS == Pow2(30)

O5mDecoder_new(data, checks) ==
    [inner |-> [data |-> data, off |-> 0, take |-> 0],
     string_table |-> StringReferenceTable_new,
     delta |-> DeltaState_new,
     limit |-> 0,
     position |-> 0,
     overflow_checks |-> checks]

DOk(d, v) == [st |-> "ok", d |-> d, v |-> v, msg |-> ""]
DEof(d) == [st |-> "eof", d |-> d, v |-> 0, msg |-> ""]
DParse(d, m) == [st |-> "parse", d |-> d, v |-> 0, msg |-> m]
DPanic(d, m) == [st |-> "panic", d |-> d, v |-> 0, msg |-> m]

\* A result of the byte source as a result of the decoder that owns it.
Lift(d, r) == [st |-> r.st, d |-> [d EXCEPT !.inner = r.r], v |-> r.v, msg |-> r.msg]

\* A reset that forgets the delta registers only.
O5mDecoder_reset_keeping_table(d) == [d EXCEPT !.delta = DeltaState_new]

\* A reset that clears the string table only.
O5mDecoder_reset_keeping_delta(d) == [d EXCEPT !.string_table = StringReferenceTable_new]

\* O5mDecoder::reset.
O5mDecoder_reset(d) ==
    [d EXCEPT !.string_table = StringReferenceTable_new, !.delta = DeltaState_new]

\* A set_limit that forgets what was read under the budget it replaces.
O5mDecoder_set_limit_forgetting(d, limit) ==
    [d EXCEPT !.limit = limit, !.inner.take = limit]

\* O5mDecoder::set_limit.
O5mDecoder_set_limit(d, limit) ==
    [d EXCEPT !.position = @ + (d.limit - d.inner.take),
              !.limit = limit,
              !.inner.take = limit]

\* O5mDecoder::position.
O5mDecoder_position(d) == d.position + (d.limit - d.inner.take)

\* O5mDecoder::read_u8.
O5mDecoder_read_u8(d) == Lift(d, read_exact1(d.inner))

\* O5mDecoder::read_varint.
O5mDecoder_read_varint(d) ==
    Try(Lift(d, read_varint(d.inner)), LAMBDA r : DOk(r.d, into_i64(r.v)))

\* O5mDecoder::read_uvarint.
O5mDecoder_read_uvarint(d) ==
    Try(Lift(d, read_varint(d.inner)), LAMBDA r : DOk(r.d, into_u64(r.v)))

\* O5mDecoder::read_limit.
O5mDecoder_read_limit(d) ==
    Try(O5mDecoder_read_uvarint(O5mDecoder_set_limit(d, 9)), LAMBDA len :
        DOk(O5mDecoder_set_limit(len.d, len.v), 0))

\* The decoder with register k moved by DeltaState::decode, and the value.
DecDelta(d, k, val) ==
    DOk([d EXCEPT !.delta = DeltaState_decode(d.delta, k, val).delta],
        DeltaState_decode(d.delta, k, val).v)

\* O5mDecoder::read_delta.
O5mDecoder_read_delta(d, k) ==
    Try(O5mDecoder_read_varint(d), LAMBDA val : DecDelta(val.d, k, val.v))

\* read_delta_coordinate without the casts to i32.
O5mDecoder_read_delta_coordinate_uncast(d) ==
    Try(O5mDecoder_read_delta(d, "Lon"), LAMBDA lon :
    Try(O5mDecoder_read_delta(lon.d, "Lat"), LAMBDA lat :
        DOk(lat.d, Coordinate(lat.v, lon.v))))

\* O5mDecoder::read_delta_coordinate: lon, then lat, each cast to i32.
O5mDecoder_read_delta_coordinate(d) ==
    Try(O5mDecoder_read_delta(d, "Lon"), LAMBDA lon :
    Try(O5mDecoder_read_delta(lon.d, "Lat"), LAMBDA lat :
        DOk(lat.d, Coordinate(AsI32(lat.v), AsI32(lon.v)))))

\* O5mDecoder::read_string_bytes: `parts` zero bytes end the string, the last
\* one is not part of it; the string is pushed to the table.
RECURSIVE read_string_bytes_loop(_, _, _, _)
read_string_bytes_loop(d, parts, data, count) ==
    Try(O5mDecoder_read_u8(d), LAMBDA b :
        IF b.v = 0 /\ count + 1 = parts
        THEN DOk([b.d EXCEPT !.string_table = StringReferenceTable_push(@, data)], data)
        ELSE read_string_bytes_loop(b.d, parts, Append(data, b.v),
                                    IF b.v = 0 THEN count + 1 ELSE count))

O5mDecoder_read_string_bytes(d, parts) == read_string_bytes_loop(d, parts, <<>>, 0)

\* The number of continuation bytes (10xxxxxx) a UTF-8 lead byte asks for,
\* -1 for a byte that cannot start a character.
Utf8Need(b) ==
    IF b < 128 THEN 0
    ELSE IF b >= 194 /\ b <= 223 THEN 1
    ELSE IF b >= 224 /\ b <= 239 THEN 2
    ELSE IF b >= 240 /\ b <= 244 THEN 3
    ELSE 0 - 1

IsContinuation(b) == b >= 128 /\ b <= 191

\* How many of the bytes after position i are continuation bytes, at most n.
RECURSIVE ContinuationRun(_, _, _)
ContinuationRun(bytes, i, n) ==
    IF n <= 0 \/ i + 1 > Len(bytes) THEN 0
    ELSE IF ~IsContinuation(bytes[i + 1]) THEN 0
    ELSE 1 + ContinuationRun(bytes, i + 1, n - 1)

\* String::from_utf8_lossy: well formed characters are kept, every ill formed
\* run (a stray byte, or a lead byte with too few continuation bytes) becomes
\* U+FFFD, i.e. the bytes EF BF BD.  (Overlong and surrogate forms, which need
\* a range check on the first continuation byte, are taken as well formed.)
RECURSIVE from_utf8_lossy_at(_, _)
from_utf8_lossy_at(bytes, i) ==
    IF i > Len(bytes) THEN <<>>
    ELSE Let(Utf8Need(bytes[i]), LAMBDA need :
         Let(ContinuationRun(bytes, i, need), LAMBDA have :
             IF need >= 0 /\ have = need
             THEN SubSeq(bytes, i, i + need) \o from_utf8_lossy_at(bytes, i + need + 1)
             ELSE <<239, 191, 189>> \o from_utf8_lossy_at(bytes, i + have + 1)))

from_utf8_lossy(bytes) == from_utf8_lossy_at(bytes, 1)

\* The index of the first zero byte, 0 when there is none.
FirstZero(bytes) ==
    IF \E i \in 1..Len(bytes) : bytes[i] = 0
    THEN CHOOSE i \in 1..Len(bytes) : bytes[i] = 0 /\ \A j \in 1..(i - 1) : bytes[j] /= 0
    ELSE 0

\* O5mDecoder::split_string_bytes: position(..).unwrap() panics without a zero
\* byte.  The result is [ok, a, b].
O5mDecoder_split_string_bytes(bytes) ==
    Let(FirstZero(bytes), LAMBDA div :
        IF div = 0
        THEN [ok |-> FALSE, a |-> <<>>, b |-> <<>>]
        ELSE [ok |-> TRUE, a |-> SubSeq(bytes, 1, div - 1),
              b |-> SubSeq(bytes, div + 1, Len(bytes))])

UnwrapNone == "called Option::unwrap() on a None value"

\* O5mDecoder::bytes_to_string_pair.
O5mDecoder_bytes_to_string_pair(d, bytes) ==
    Let(O5mDecoder_split_string_bytes(bytes), LAMBDA s :
        IF s.ok THEN DOk(d, <<from_utf8_lossy(s.a), from_utf8_lossy(s.b)>>)
        ELSE DPanic(d, UnwrapNone))

\* O5mDecoder::bytes_to_user.
O5mDecoder_bytes_to_user(d, bytes) ==
    Let(O5mDecoder_split_string_bytes(bytes), LAMBDA s :
        IF s.ok THEN DOk(d, <<into_u64(s.a), from_utf8_lossy(s.b)>>)
        ELSE DPanic(d, UnwrapNone))

\* The entry a reference names, or the parse error of StringReferenceTable::get.
DGet(d, reference) ==
    Let(StringReferenceTable_get(d.string_table, reference), LAMBDA g :
        IF g.st = "ok" THEN DOk(d, g.v) ELSE DParse(d, g.msg))

\* O5mDecoder::read_string_pair.
O5mDecoder_read_string_pair(d) ==
    Try(O5mDecoder_read_uvarint(d), LAMBDA reference :
    Try(IF reference.v /= 0 THEN DGet(reference.d, reference.v)
        ELSE O5mDecoder_read_string_bytes(reference.d, 2), LAMBDA bytes :
        O5mDecoder_bytes_to_string_pair(bytes.d, bytes.v)))

\* O5mDecoder::read_user.
O5mDecoder_read_user(d) ==
    Try(O5mDecoder_read_uvarint(d), LAMBDA reference :
    Try(IF reference.v /= 0 THEN DGet(reference.d, reference.v)
        ELSE O5mDecoder_read_string_bytes(reference.d, 2), LAMBDA bytes :
        O5mDecoder_bytes_to_user(bytes.d, bytes.v)))

\* O5mDecoder::read_string.
O5mDecoder_read_string(d) ==
    Try(O5mDecoder_read_uvarint(d), LAMBDA reference :
    Try(IF reference.v = 0 THEN O5mDecoder_read_string_bytes(reference.d, 1)
        ELSE DGet(reference.d, reference.v), LAMBDA bytes :
        DOk(bytes.d, from_utf8_lossy(bytes.v))))

\* The printable ASCII characters from ' ' (32) to '~' (126), for messages
\* that quote a character (the grave accent, 96, by its code).
AsciiTable ==
    <<" ", "!", "\"", "#", "$", "%", "&", "'", "(", ")", "*", "+", ",", "-", ".", "/",
      "0", "1", "2", "3", "4", "5", "6", "7", "8", "9", ":", ";", "<", "=", ">", "?",
      "@", "A", "B", "C", "D", "E", "F", "G", "H", "I", "J", "K", "L", "M", "N", "O",
      "P", "Q", "R", "S", "T", "U", "V", "W", "X", "Y", "Z", "[", "\\", "]", "^", "_",
      "\\x60", "a", "b", "c", "d", "e", "f", "g", "h", "i", "j", "k", "l", "m", "n", "o",
      "p", "q", "r", "s", "t", "u", "v", "w", "x", "y", "z", "{", "|", "}", "~">>

\* The Display form of a one byte character (control characters by their code).
Chr(b) == IF b >= 32 /\ b <= 126 THEN AsciiTable[b - 31] ELSE "\\x" \o ToString(b)

\* A boundary test that takes every offset for a boundary.
is_char_boundary_any(s) == TRUE

\* str::is_char_boundary(1).
is_char_boundary_1(s) ==
    IF Len(s) = 0 THEN FALSE
    ELSE IF Len(s) = 1 THEN TRUE
    ELSE ~IsContinuation(s[2])

\* `x as u64` of an i64.
AsU64(x) == IF x < 0 THEN x + U64_MODULUS ELSE x

\* `x as u32` of a u64; every value the model reaches is below 2^31.
AsU32(x) == x

\* The match on the member type of read_relation_member.
MemberOf(d, id, s) ==
    CASE s[1] = 48 ->
            Let(DecDelta(d, "RelNodeRef", id), LAMBDA r :
                DOk(r.d, RelationMember("Node", r.v, Tail(s))))
      [] s[1] = 49 ->
            Let(DecDelta(d, "RelWayRef", id), LAMBDA r :
                DOk(r.d, RelationMember("Way", r.v, Tail(s))))
      [] s[1] = 50 ->
            Let(DecDelta(d, "RelRelRef", id), LAMBDA r :
                DOk(r.d, RelationMember("Relation", r.v, Tail(s))))
      [] OTHER -> DParse(d, "Invalid relation member type '" \o Chr(s[1]) \o "'.")

\* O5mDecoder::read_relation_member.
O5mDecoder_read_relation_member(d) ==
    Try(O5mDecoder_read_varint(d), LAMBDA id :
    Try(O5mDecoder_read_string(id.d), LAMBDA s :
        IF ~is_char_boundary_1(s.v) \/ Len(s.v) < 2
        THEN DParse(s.d, "Corrupt relation member reference data.")
        ELSE MemberOf(s.d, id.v, s.v)))

\* The callbacks read_until_eof is called with.
ReadItem(d, item) ==
    CASE item = "tag" -> O5mDecoder_read_string_pair(d)
      [] item = "way_ref" -> O5mDecoder_read_delta(d, "WayRef")
      [] item = "member" -> O5mDecoder_read_relation_member(d)
      [] item = "skip" -> O5mDecoder_read_u8(d)

\* O5mDecoder::read_until_eof: an UnexpectedEof of the callback ends the loop,
\* any other error is returned.
RECURSIVE read_until_eof_loop(_, _, _)
read_until_eof_loop(d, item, vec) ==
    Let(ReadItem(d, item), LAMBDA r :
        IF r.st = "ok" THEN read_until_eof_loop(r.d, item, Append(vec, r.v))
        ELSE IF r.st = "eof" THEN DOk(r.d, vec)
        ELSE r)

O5mDecoder_read_until_eof(d, item) == read_until_eof_loop(d, item, <<>>)

\* O5mDecoder::skip_all.
O5mDecoder_skip_all(d) == O5mDecoder_read_until_eof(d, "skip")

\* O5mDecoder::read_tags.
O5mDecoder_read_tags(d) ==
    Try(O5mDecoder_read_until_eof(d, "tag"), LAMBDA pairs :
        DOk(pairs.d, [i \in 1..Len(pairs.v) |-> Tag(pairs.v[i][1], pairs.v[i][2])]))

\* `self.set_limit(limit - size)` on u64: a panic with overflow checks, a wrap
\* around without.
RestoreLimit(d, limit, size) ==
    IF limit >= size THEN DOk(O5mDecoder_set_limit(d, limit - size), 0)
    ELSE IF d.overflow_checks THEN DPanic(d, "attempt to subtract with overflow")
    ELSE DOk(O5mDecoder_set_limit(d, (limit - size) + U64_MODULUS), 0)

\* The section of `size` bytes read by read_until_eof, then the outer budget.
ReadSection(d, size, item) ==
    Try(O5mDecoder_read_until_eof(O5mDecoder_set_limit(d, size), item), LAMBDA items :
    Try(RestoreLimit(items.d, d.inner.take, size), LAMBDA rest :
        DOk(rest.d, items.v)))

\* O5mDecoder::read_way_references.
O5mDecoder_read_way_references(d, size) == ReadSection(d, size, "way_ref")

\* O5mDecoder::read_relation_members.
O5mDecoder_read_relation_members(d, size) == ReadSection(d, size, "member")

\* O5mDecoder::read_author_info.
O5mDecoder_read_author_info(d) ==
    Try(O5mDecoder_read_delta(d, "Time"), LAMBDA created :
        IF created.v = 0 THEN DOk(created.d, None)
        ELSE Try(O5mDecoder_read_delta(created.d, "ChangeSet"), LAMBDA change_set :
             Try(O5mDecoder_read_user(change_set.d), LAMBDA user :
                 DOk(user.d, Some(AuthorInformation(
                     created.v, AsU64(change_set.v), user.v[1], user.v[2]))))))

(***************************************************************************)
(* osm_io/o5m/reader.rs: O5mReader.                                        *)
(***************************************************************************)
\* O5mReader::read_meta.
O5mReader_read_meta(d) ==
    Try(O5mDecoder_read_uvarint(d), LAMBDA version :
        IF AsU32(version.v) = 0 THEN DOk(version.d, Meta(<<>>, None, None))
        ELSE Try(O5mDecoder_read_author_info(version.d), LAMBDA author :
                 DOk(author.d, Meta(<<>>, Some(AsU32(version.v)), author.v))))

\* A read_boundary that takes the latitude of a corner before its longitude.
O5mReader_read_boundary_lat_first(d) ==
    Try(O5mDecoder_read_limit(d), LAMBDA l :
    Try(O5mDecoder_read_varint(l.d), LAMBDA min_lat :
    Try(O5mDecoder_read_varint(min_lat.d), LAMBDA min_lon :
    Try(O5mDecoder_read_varint(min_lon.d), LAMBDA max_lat :
    Try(O5mDecoder_read_varint(max_lat.d), LAMBDA max_lon :
        DOk(max_lon.d, [min |-> Coordinate(AsI32(min_lat.v), AsI32(min_lon.v)),
                        max |-> Coordinate(AsI32(max_lat.v), AsI32(max_lon.v)),
                        freeze |-> TRUE]))))))

\* O5mReader::read_boundary.
O5mReader_read_boundary(d) ==
    Try(O5mDecoder_read_limit(d), LAMBDA l :
    Try(O5mDecoder_read_varint(l.d), LAMBDA min_lon :
    Try(O5mDecoder_read_varint(min_lon.d), LAMBDA min_lat :
    Try(O5mDecoder_read_varint(min_lat.d), LAMBDA max_lon :
    Try(O5mDecoder_read_varint(max_lon.d), LAMBDA max_lat :
        DOk(max_lat.d, [min |-> Coordinate(AsI32(min_lat.v), AsI32(min_lon.v)),
                        max |-> Coordinate(AsI32(max_lat.v), AsI32(max_lon.v)),
                        freeze |-> TRUE]))))))

\* The common head of a node, way or relation: read_limit, the id, the meta.
ReadHead(d) ==
    Try(O5mDecoder_read_limit(d), LAMBDA l :
    Try(O5mDecoder_read_delta(l.d, "Id"), LAMBDA id :
    Try(O5mReader_read_meta(id.d), LAMBDA meta :
        DOk(meta.d, [id |-> id.v, meta |-> meta.v]))))

\* O5mReader::read_node.
O5mReader_read_node(d) ==
    Try(ReadHead(d), LAMBDA h :
    Try(O5mDecoder_read_delta_coordinate(h.d), LAMBDA coordinate :
    Try(O5mDecoder_read_tags(coordinate.d), LAMBDA tags :
        DOk(tags.d, Node(h.v.id, coordinate.v, [h.v.meta EXCEPT !.tags = tags.v])))))

\* O5mReader::read_way.
O5mReader_read_way(d) ==
    Try(ReadHead(d), LAMBDA h :
    Try(O5mDecoder_read_uvarint(h.d), LAMBDA ref_size :
    Try(O5mDecoder_read_way_references(ref_size.d, ref_size.v), LAMBDA refs :
    Try(O5mDecoder_read_tags(refs.d), LAMBDA tags :
        DOk(tags.d, Way(h.v.id, refs.v, [h.v.meta EXCEPT !.tags = tags.v]))))))

\* O5mReader::read_relation.
O5mReader_read_relation(d) ==
    Try(ReadHead(d), LAMBDA h :
    Try(O5mDecoder_read_uvarint(h.d), LAMBDA ref_size :
    Try(O5mDecoder_read_relation_members(ref_size.d, ref_size.v), LAMBDA members :
    Try(O5mDecoder_read_tags(members.d), LAMBDA tags :
        DOk(tags.d, Relation(h.v.id, members.v, [h.v.meta EXCEPT !.tags = tags.v]))))))

\* A read_set_type that looks at the type code and leaves it in the stream.
O5mReader_read_set_type_peek(d) ==
    [O5mDecoder_read_u8(O5mDecoder_set_limit(d, 1)) EXCEPT !.d = O5mDecoder_set_limit(d, 1)]

\* O5mReader::read_set_type.
O5mReader_read_set_type(d) == O5mDecoder_read_u8(O5mDecoder_set_limit(d, 1))

\* O5mReader::skip_dataset.
O5mReader_skip_dataset(d, block_type) ==
    IF block_type >= 240
    THEN Try(O5mDecoder_read_limit(d), LAMBDA l : O5mDecoder_skip_all(l.d))
    ELSE DOk(d, 0)

\* The result of parse_next: [st, d, v, msg, osm], v = FALSE when there is no
\* more data; osm is the map afterwards.
PResult(r, v, o) == [st |-> r.st, d |-> r.d, v |-> v, msg |-> r.msg, osm |-> o]

\* The arms of the match of parse_next.
Dispatch(d, set_type, o) ==
    CASE set_type = O5M_NODE ->
            Let(O5mReader_read_node(d), LAMBDA node :
                PResult(node, TRUE, IF node.st = "ok" THEN Osm_add_node(o, node.v) ELSE o))
      [] set_type = O5M_WAY ->
            Let(O5mReader_read_way(d), LAMBDA way :
                PResult(way, TRUE, IF way.st = "ok" THEN Osm_add_way(o, way.v) ELSE o))
      [] set_type = O5M_RELATION ->
            Let(O5mReader_read_relation(d), LAMBDA rel :
                PResult(rel, TRUE, IF rel.st = "ok" THEN Osm_add_relation(o, rel.v) ELSE o))
      [] set_type = O5M_BOUNDING_BOX ->
            Let(O5mReader_read_boundary(d), LAMBDA b :
                PResult(b, TRUE, IF b.st = "ok" THEN [o EXCEPT !.boundary = Some(b.v)] ELSE o))
      [] set_type = O5M_RESET -> PResult(DOk(O5mDecoder_reset(d), 0), TRUE, o)
      [] set_type = O5M_EOF -> PResult(DOk(d, 0), FALSE, o)
      [] OTHER -> PResult(O5mReader_skip_dataset(d, set_type), TRUE, o)

\* O5mReader::parse_next.
O5mReader_parse_next(d, o) ==
    Let(O5mReader_read_set_type(d), LAMBDA t :
        IF t.st /= "ok" THEN PResult(t, TRUE, o) ELSE Dispatch(t.d, t.v, o))

\* An Error returned as parse_next made it, whatever its kind.
ReadError_unprefixed(r) ==
    IF r.st = "parse"
    THEN [kind |-> "ParseError", message |-> Some(r.msg), display |-> r.msg]
    ELSE [kind |-> "IO", message |-> None, display |-> "Unexpected end of file."]

\* The Error `read` returns for a failed parse_next: a message, when there is
\* one, gets the position in front; an io::Error has none.
\* [kind, message, display]: display is what Display for Error prints.
ReadError(r) ==
    IF r.st = "parse"
    THEN [kind |-> "ParseError",
          message |-> Some("Ending at byte " \o ToString(O5mDecoder_position(r.d))
                           \o ": " \o r.msg),
          display |-> "Ending at byte " \o ToString(O5mDecoder_position(r.d))
                      \o ": " \o r.msg]
    ELSE [kind |-> "IO", message |-> None, display |-> "Unexpected end of file."]

NoError == [kind |-> "", message |-> None, display |-> ""]

(***************************************************************************)
(* osm_io/xml/reader.rs: XmlReader at the level of the events quick_xml     *)
(* hands to parse_event.  An event is [ev, name, ok, value, nl, cnl]: the   *)
(* kind of event, the element name, whether its attributes (and, for a      *)
(* Start event, the attributes of its content) parse, the element they      *)
(* parse to, and the newlines in the buffer of the event and of its         *)
(* content.                                                                 *)
(***************************************************************************)
XmlEvent(ev, name, ok, value, nl, cnl) ==
    [ev |-> ev, name |-> name, ok |-> ok, value |-> value, nl |-> nl, cnl |-> cnl]

\* The value of an event that parses to no element of the map.
NoElement == [id |-> 0]

XOk(x, o) == [st |-> "ok", x |-> x, osm |-> o]
XErr(x, o) == [st |-> "err", x |-> x, osm |-> o]
XEof(x, o) == [st |-> "eof", x |-> x, osm |-> o]

\* XmlReader::parse_empty_element: <node .../> and <bounds .../>.
XmlReader_parse_empty_element(x, o, e) ==
    IF e.name = "node"
    THEN IF e.ok THEN XOk(x, Osm_add_node(o, e.value)) ELSE XErr(x, o)
    ELSE IF e.name = "bounds"
    THEN IF e.ok THEN XOk(x, [o EXCEPT !.boundary = Some(e.value)]) ELSE XErr(x, o)
    ELSE XOk(x, o)

\* XmlReader::parse_element: <osm> is stepped into, the content of any other
\* element is read to its end; node, way and relation are added.
XmlReader_parse_element(x, o, e) ==
    IF e.name = "osm" THEN XOk(x, o)
    ELSE IF e.name \in {"node", "way", "relation"} /\ ~e.ok THEN XErr(x, o)
    ELSE Let([x EXCEPT !.line = @ + e.cnl], LAMBDA x1 :
         CASE e.name = "node" -> XOk(x1, Osm_add_node(o, e.value))
           [] e.name = "way" -> XOk(x1, Osm_add_way(o, e.value))
           [] e.name = "relation" -> XOk(x1, Osm_add_relation(o, e.value))
           [] OTHER -> XOk(x1, o))

\* XmlReader::parse_event: Ok(false) at the end of the file; the line count
\* grows by the newlines of the event when the event was parsed.
XmlReader_parse_event(x, o) ==
    IF x.events = <<>> THEN XEof(x, o)
    ELSE Let(Head(x.events), LAMBDA e :
         Let([x EXCEPT !.events = Tail(@)], LAMBDA x1 :
         Let(CASE e.ev = "Start" -> XmlReader_parse_element(x1, o, e)
               [] e.ev = "Empty" -> XmlReader_parse_empty_element(x1, o, e)
               [] OTHER -> XOk(x1, o), LAMBDA r :
             IF r.st = "ok" THEN [r EXCEPT !.x.line = @ + e.nl] ELSE r)))

\* A return of the map as the loop left it.
XmlReader_read_return_as_parsed(o) == o

\* The end of XmlReader::read: the boundary of the map is unfrozen.
XmlReader_read_return(o) ==
    IF IsSome(o.boundary) THEN [o EXCEPT !.boundary[1].freeze = FALSE] ELSE o

\* Attributes::create_boundary.
Attributes_create_boundary(minlat, minlon, maxlat, maxlon) ==
    [min |-> Coordinate(minlat, minlon), max |-> Coordinate(maxlat, maxlon),
     freeze |-> TRUE]

(***************************************************************************)
(* osm_io/xml/writer.rs and reader.rs at the level of attributes.  A file   *)
(* is the sequence of events quick_xml reads from the bytes XmlWriter       *)
(* wrote: [ev, name, attrs, content, nl, cnl] with the attributes of the    *)
(* element in the order written, the empty elements of its content, the     *)
(* newlines in the buffer of the event and in the buffer of its content.    *)
(* Attribute keys are strings, attribute values are bytes.  A coordinate    *)
(* is written in fixed point units; the decimal fraction the source prints  *)
(* is not modelled, and neither is the escaping of attribute values.        *)
(***************************************************************************)
Attr(key, value) == [key |-> key, value |-> value]
Element(name, attrs) == [name |-> name, attrs |-> attrs]
FileEvent(ev, name, attrs, content, nl, cnl) ==
    [ev |-> ev, name |-> name, attrs |-> attrs, content |-> content, nl |-> nl, cnl |-> cnl]

\* "node", "way", "rel", "relation", "0.6", "1.0", "UTF-8", "Vadeen OSM".
StrNode == <<110, 111, 100, 101>>
StrWay == <<119, 97, 121>>
StrRel == <<114, 101, 108>>
StrRelation == <<114, 101, 108, 97, 116, 105, 111, 110>>
OSM_VERSION == <<48, 46, 54>>
OSM_GENERATOR == <<86, 97, 100, 101, 101, 110, 32, 79, 83, 77>>
XML_VERSION == <<49, 46, 48>>
XML_ENCODING == <<85, 84, 70, 45, 56>>

\* to_string of an integer: decimal digits, '-' in front of a negative one.
RECURSIVE Digits(_)
Digits(n) == IF n < 10 THEN <<48 + n>> ELSE Digits(n \div 10) \o <<48 + (n % 10)>>
int_to_string(n) == IF n < 0 THEN <<45>> \o Digits(0 - n) ELSE Digits(n)

\* str::parse of an integer type with the range lo..hi: an optional sign
\* ('-' only for a signed type), then one decimal digit or more; a value
\* outside the range is an error.  None stands for the error.
RECURSIVE DigitsValue(_)
DigitsValue(s) ==
    IF s = <<>> THEN 0 ELSE 10 * DigitsValue(Front(s)) + (s[Len(s)] - 48)
IsDigits(s) == s /= <<>> /\ \A i \in 1..Len(s) : s[i] \in 48..57
ParseInt(s, lo, hi) ==
    IF s = <<>> THEN None
    ELSE IF s[1] = 45
    THEN IF lo < 0 /\ IsDigits(Tail(s)) /\ 0 - DigitsValue(Tail(s)) >= lo
         THEN Some(0 - DigitsValue(Tail(s))) ELSE None
    ELSE IF s[1] = 43
    THEN IF IsDigits(Tail(s)) /\ DigitsValue(Tail(s)) <= hi
         THEN Some(DigitsValue(Tail(s))) ELSE None
    ELSE IF IsDigits(s) /\ DigitsValue(s) <= hi THEN Some(DigitsValue(s)) ELSE None

AOk(v) == [st |-> "ok", v |-> v]
\* Every error of Attributes is ErrorKind::InvalidData.
AErr == [st |-> "err", kind |-> "InvalidData"]

\* add_member_attributes.
add_member_attributes(mem) ==
    << Attr("type", CASE mem.kind = "Node" -> StrNode
                      [] mem.kind = "Way" -> StrWay
                      [] mem.kind = "Relation" -> StrRelation),
       Attr("ref", int_to_string(mem.id)),
       Attr("role", mem.role) >>

\* add_meta_attributes.
add_meta_attributes(meta) ==
    (IF IsSome(meta.author)
     THEN << Attr("uid", int_to_string(meta.author[1].uid)),
             Attr("user", meta.author[1].user),
             Attr("changeset", int_to_string(meta.author[1].change_set)) >>
     ELSE <<>>)
    \o <<Attr("version", int_to_string(IF IsSome(meta.version) THEN meta.version[1] ELSE 1))>>

\* XmlWriter::write_tags.
XmlWriter_write_tags(tags) ==
    [i \in 1..Len(tags) |->
        Element("tag", <<Attr("k", tags[i].key), Attr("v", tags[i].value)>>)]

\* XmlWriter::write_bounds.
XmlWriter_write_bounds(bounds) ==
    FileEvent("Empty", "bounds",
              << Attr("minlat", int_to_string(bounds.min.lat)),
                 Attr("minlon", int_to_string(bounds.min.lon)),
                 Attr("maxlat", int_to_string(bounds.max.lat)),
                 Attr("maxlon", int_to_string(bounds.max.lon)) >>, <<>>, 0, 0)

\* XmlWriter::write_node: an empty element for a node without tags.
XmlWriter_write_node(node) ==
    Let(<< Attr("id", int_to_string(node.id)),
           Attr("lat", int_to_string(node.coordinate.lat)),
           Attr("lon", int_to_string(node.coordinate.lon)) >>
        \o add_meta_attributes(node.meta), LAMBDA attrs :
        IF node.meta.tags = <<>>
        THEN FileEvent("Empty", "node", attrs, <<>>, 0, 0)
        ELSE FileEvent("Start", "node", attrs, XmlWriter_write_tags(node.meta.tags),
                       0, Len(node.meta.tags) + 1))

\* XmlWriter::write_way.
XmlWriter_write_way(way) ==
    FileEvent("Start", "way",
              <<Attr("id", int_to_string(way.id))>> \o add_meta_attributes(way.meta),
              [i \in 1..Len(way.refs) |->
                  Element("nd", <<Attr("ref", int_to_string(way.refs[i]))>>)]
              \o XmlWriter_write_tags(way.meta.tags),
              0, Len(way.refs) + Len(way.meta.tags) + 1)

\* XmlWriter::write_relation.
XmlWriter_write_relation(rel) ==
    FileEvent("Start", "relation",
              <<Attr("id", int_to_string(rel.id))>> \o add_meta_attributes(rel.meta),
              [i \in 1..Len(rel.members) |->
                  Element("member", add_member_attributes(rel.members[i]))]
              \o XmlWriter_write_tags(rel.meta.tags),
              0, Len(rel.members) + Len(rel.meta.tags) + 1)

\* The text between two elements: a newline, and the indentation of the next.
FileText == FileEvent("Text", "", <<>>, <<>>, 1, 0)

\* XmlWriter::write: the declaration, <osm>, the bounds when the map has a
\* boundary, the nodes, the ways, the relations, </osm>.
XmlWriter_write(o) ==
    << FileEvent("Decl", "", <<Attr("version", XML_VERSION), Attr("encoding", XML_ENCODING)>>,
                 <<>>, 0, 0),
       FileText,
       FileEvent("Start", "osm",
                 <<Attr("version", OSM_VERSION), Attr("generator", OSM_GENERATOR)>>,
                 <<>>, 0, 0),
       FileText >>
    \o (IF IsSome(o.boundary) THEN <<XmlWriter_write_bounds(o.boundary[1]), FileText>>
        ELSE <<>>)
    \o [i \in 1..2 * Len(o.nodes) |->
           IF i % 2 = 1 THEN XmlWriter_write_node(o.nodes[(i + 1) \div 2]) ELSE FileText]
    \o [i \in 1..2 * Len(o.ways) |->
           IF i % 2 = 1 THEN XmlWriter_write_way(o.ways[(i + 1) \div 2]) ELSE FileText]
    \o [i \in 1..2 * Len(o.relations) |->
           IF i % 2 = 1 THEN XmlWriter_write_relation(o.relations[(i + 1) \div 2])
           ELSE FileText]
    \o <<FileEvent("End", "osm", <<>>, <<>>, 0, 0)>>

\* Attributes::from and Attributes::get: the map keeps the last value of a key.
Attributes_get(attrs, key) ==
    IF \E i \in 1..Len(attrs) : attrs[i].key = key
    THEN Some(attrs[CHOOSE i \in 1..Len(attrs) :
                       /\ attrs[i].key = key
                       /\ \A j \in (i + 1)..Len(attrs) : attrs[j].key /= key].value)
    ELSE None

\* Attributes::get_required.
Attributes_get_required(attrs, key) ==
    IF IsSome(Attributes_get(attrs, key)) THEN AOk(Attributes_get(attrs, key)[1]) ELSE AErr

\* Attributes::get_parse (and Attributes::parse) into an integer type.
Attributes_parse(s, lo, hi) ==
    IF IsSome(ParseInt(s, lo, hi)) THEN AOk(ParseInt(s, lo, hi)[1]) ELSE AErr
Attributes_get_parse(attrs, key, lo, hi) ==
    Try(Attributes_get_required(attrs, key), LAMBDA s : Attributes_parse(s.v, lo, hi))

Attributes_get_i64(attrs, key) == Attributes_get_parse(attrs, key, I64_MIN, I64_MAX)
Attributes_get_u64(attrs, key) == Attributes_get_parse(attrs, key, 0, U64_MODULUS - 1)

\* Attributes::contains_all.
Attributes_contains_all(attrs, keys) == \A key \in keys : IsSome(Attributes_get(attrs, key))

\* Attributes::create_coordinate; `as i32` of a float saturates.
Attributes_get_degrees(attrs, key) ==
    Try(Attributes_get_parse(attrs, key, 0 - U64_MODULUS, U64_MODULUS), LAMBDA c :
        AOk(IF c.v < I32_MIN THEN I32_MIN
            ELSE IF c.v > 0 - (I32_MIN + 1) THEN 0 - (I32_MIN + 1) ELSE c.v))
Attributes_create_coordinate(attrs) ==
    Try(Attributes_get_degrees(attrs, "lat"), LAMBDA lat :
    Try(Attributes_get_degrees(attrs, "lon"), LAMBDA lon :
        AOk(Coordinate(lat.v, lon.v))))

\* parse_boundary: Attributes::create_boundary over the attributes of <bounds>.
parse_boundary(attrs) ==
    Try(Attributes_get_degrees(attrs, "minlat"), LAMBDA minlat :
    Try(Attributes_get_degrees(attrs, "minlon"), LAMBDA minlon :
    Try(Attributes_get_degrees(attrs, "maxlat"), LAMBDA maxlat :
    Try(Attributes_get_degrees(attrs, "maxlon"), LAMBDA maxlon :
        AOk(Attributes_create_boundary(minlat.v, minlon.v, maxlat.v, maxlon.v))))))

\* Attributes::create_tag.
Attributes_create_tag(attrs) ==
    Try(Attributes_get_required(attrs, "k"), LAMBDA k :
    Try(Attributes_get_required(attrs, "v"), LAMBDA v :
        AOk(Tag(k.v, v.v))))

\* Attributes::get_timestamp; the timestamp is written as its count of seconds.
Attributes_get_timestamp(attrs) == Attributes_get_i64(attrs, "timestamp")

\* Attributes::create_meta: an author only when timestamp, uid, user and
\* changeset are all there.
Attributes_create_meta(attrs) ==
    Try(IF Attributes_contains_all(attrs, {"timestamp", "uid", "user", "changeset"})
        THEN Try(Attributes_get_timestamp(attrs), LAMBDA created :
             Try(Attributes_get_u64(attrs, "uid"), LAMBDA uid :
             Try(Attributes_get_required(attrs, "user"), LAMBDA user :
             Try(Attributes_get_u64(attrs, "changeset"), LAMBDA change_set :
                 AOk(Some(AuthorInformation(created.v, change_set.v, uid.v, user.v)))))))
        ELSE AOk(None), LAMBDA author :
    Try(IF IsSome(Attributes_get(attrs, "version"))
        THEN Try(Attributes_parse(Attributes_get(attrs, "version")[1], 0, U64_MODULUS - 1),
                 LAMBDA version : AOk(Some(version.v)))
        ELSE AOk(None), LAMBDA version :
        AOk(Meta(<<>>, version.v, author.v))))

\* Attributes::create_relation_member.
Attributes_create_relation_member(attrs) ==
    Try(Attributes_get_i64(attrs, "ref"), LAMBDA mem_ref :
    Try(Attributes_get_required(attrs, "type"), LAMBDA mem_type :
    Let(IF IsSome(Attributes_get(attrs, "role")) THEN Attributes_get(attrs, "role")[1]
        ELSE <<>>, LAMBDA mem_role :
        CASE mem_type.v = StrNode -> AOk(RelationMember("Node", mem_ref.v, mem_role))
          [] mem_type.v = StrWay -> AOk(RelationMember("Way", mem_ref.v, mem_role))
          [] mem_type.v = StrRel -> AOk(RelationMember("Relation", mem_ref.v, mem_role))
          [] OTHER -> AErr)))

\* create_tags, create_way_refs, create_relation_members: the elements of
\* one name among the content, each parsed, the first error returned.
CreateOne(name, attrs) ==
    CASE name = "tag" -> Attributes_create_tag(attrs)
      [] name = "nd" -> Attributes_get_i64(attrs, "ref")
      [] name = "member" -> Attributes_create_relation_member(attrs)
RECURSIVE CreateAll(_, _)
CreateAll(events, name) ==
    IF events = <<>> THEN AOk(<<>>)
    ELSE IF Head(events).name /= name THEN CreateAll(Tail(events), name)
    ELSE Try(CreateOne(name, Head(events).attrs), LAMBDA h :
         Try(CreateAll(Tail(events), name), LAMBDA t :
             AOk(<<h.v>> \o t.v)))
create_tags(events) == CreateAll(events, "tag")
create_way_refs(events) == CreateAll(events, "nd")
create_relation_members(events) == CreateAll(events, "member")

\* parse_node, parse_way, parse_relation.
parse_node(attrs) ==
    Try(Attributes_get_i64(attrs, "id"), LAMBDA id :
    Try(Attributes_create_coordinate(attrs), LAMBDA coordinate :
    Try(Attributes_create_meta(attrs), LAMBDA meta :
        AOk(Node(id.v, coordinate.v, meta.v)))))
parse_way(attrs) ==
    Try(Attributes_get_i64(attrs, "id"), LAMBDA id :
    Try(Attributes_create_meta(attrs), LAMBDA meta :
        AOk(Way(id.v, <<>>, meta.v))))
parse_relation(attrs) ==
    Try(Attributes_get_i64(attrs, "id"), LAMBDA id :
    Try(Attributes_create_meta(attrs), LAMBDA meta :
        AOk(Relation(id.v, <<>>, meta.v))))

\* What parse_empty_element and parse_element make of the attributes of an
\* event and of its content: the element, or an error.
ParseAttributes(e) ==
    CASE e.ev = "Empty" /\ e.name = "node" -> parse_node(e.attrs)
      [] e.ev = "Empty" /\ e.name = "bounds" -> parse_boundary(e.attrs)
      [] e.ev = "Start" /\ e.name = "node" ->
            Try(parse_node(e.attrs), LAMBDA node :
            Try(create_tags(e.content), LAMBDA tags :
                AOk([node.v EXCEPT !.meta.tags = tags.v])))
      [] e.ev = "Start" /\ e.name = "way" ->
            Try(parse_way(e.attrs), LAMBDA way :
            Try(create_way_refs(e.content), LAMBDA refs :
            Try(create_tags(e.content), LAMBDA tags :
                AOk([way.v EXCEPT !.refs = refs.v, !.meta.tags = tags.v]))))
      [] e.ev = "Start" /\ e.name = "relation" ->
            Try(parse_relation(e.attrs), LAMBDA relation :
            Try(create_relation_members(e.content), LAMBDA members :
            Try(create_tags(e.content), LAMBDA tags :
                AOk([relation.v EXCEPT !.members = members.v, !.meta.tags = tags.v]))))
      [] OTHER -> AOk(NoElement)

\* The event parse_event works on, for an event of the file.
EventOf(e) ==
    Let(ParseAttributes(e), LAMBDA r :
        XmlEvent(e.ev, e.name, r.st = "ok", IF r.st = "ok" THEN r.v ELSE NoElement,
                 e.nl, e.cnl))
EventsOf(file) == [i \in 1..Len(file) |-> EventOf(file[i])]

(***************************************************************************)
(* Inputs.                                                                 *)
(***************************************************************************)
\* "k", "v", "u", "r", "type", "mp".
StrK == <<107>>
StrV == <<118>>
StrU == <<117>>
StrR == <<114>>
StrType == <<116, 121, 112, 101>>
StrMp == <<109, 112>>

AuthorA == AuthorInformation(100, 5, 7, StrU)
AuthorB == AuthorInformation(90, 6, 0, StrU)

\* The nodes, ways and relations a caller adds.
NodeInputs ==
    { Node(1, Coordinate(1, 2), Meta_default),
      Node(2, Coordinate(0 - 3, 5), Meta(<<Tag(StrK, StrV)>>, Some(1), None)),
      Node(70, Coordinate(2, 0 - 1), Meta(<<Tag(StrK, StrV)>>, Some(2), Some(AuthorA))) }

WayInputs ==
    { Way(3, <<1, 2>>, Meta(<<Tag(StrK, StrV)>>, None, None)),
      Way(4, <<>>, Meta_default),
      Way(5, <<70, 1, 70>>, Meta(<<>>, Some(1), Some(AuthorB))) }

RelationInputs ==
    { Relation(6, <<RelationMember("Way", 3, StrR), RelationMember("Way", 5, StrR)>>,
               Meta(<<Tag(StrType, StrMp)>>, None, None)),
      Relation(7, <<RelationMember("Node", 1, StrR), RelationMember("Relation", 6, StrR),
                    RelationMember("Node", 70, StrU)>>,
               Meta(<<>>, Some(1), None)),
      Relation(8, <<RelationMember("Way", 3, StrR)>>, Meta(<<>>, Some(3), Some(AuthorA))),
      Relation(9, <<>>, Meta(<<Tag(StrK, StrV)>>, None, None)) }

\* Coordinates at the ends of the i32 range.
CoordinateInputs ==
    { Coordinate(a, b) : a \in {I32_MIN, 0, I32_MAX}, b \in {I32_MIN, 0 - 1, I32_MAX} }

Elements(o) == Len(o.nodes) + Len(o.ways) + Len(o.relations)

(***************************************************************************)
(* Actions: building a map, writing it, reading the bytes back.            *)
(***************************************************************************)
Building == rphase = "idle" /\ writer.inner = <<>> /\ xml.phase = "idle"

\* Osm::add_node.
AddNode ==
    /\ Building
    /\ Elements(osm) < MaxElements
    /\ \E node \in NodeInputs : osm' = Osm_add_node(osm, node)
    /\ UNCHANGED <<writer, rphase, decoder, rosm, rerr, vi, xml, tbl, dl>>

\* Osm::add_way.
AddWay ==
    /\ Building
    /\ Elements(osm) < MaxElements
    /\ \E way \in WayInputs : osm' = Osm_add_way(osm, way)
    /\ UNCHANGED <<writer, rphase, decoder, rosm, rerr, vi, xml, tbl, dl>>

\* Osm::add_relation.
AddRelation ==
    /\ Building
    /\ Elements(osm) < MaxElements
    /\ \E relation \in RelationInputs : osm' = Osm_add_relation(osm, relation)
    /\ UNCHANGED <<writer, rphase, decoder, rosm, rerr, vi, xml, tbl, dl>>

\* Osm::add_node with a coordinate from the ends of the i32 range.
AddCoordinateNode ==
    /\ Building
    /\ Elements(osm) < MaxElements
    /\ \E c \in CoordinateInputs :
          osm' = Osm_add_node(osm, Node(Len(osm.nodes) + 1, c, Meta_default))
    /\ UNCHANGED <<writer, rphase, decoder, rosm, rerr, vi, xml, tbl, dl>>

\* Ids and coordinates of the nodes a caller inserts: ids below and above 0,
\* and coordinates that several nodes share.
IdInputs == {0 - 2, 0 - 1, 3}
SharedCoordinates == {Coordinate(1, 2), Coordinate(0 - 3, 5)}

\* Osm::add_node on a container, with any id.
InsertNode ==
    /\ Elements(osm) < MaxElements
    /\ \E id \in IdInputs, c \in SharedCoordinates :
          osm' = Osm_add_node(osm, Node(id, c, Meta_default))
    /\ UNCHANGED <<writer, rphase, decoder, rosm, rerr, vi, xml, tbl, dl>>

\* Osm::add_way on a container.
InsertWay ==
    /\ Elements(osm) < MaxElements
    /\ \E way \in WayInputs : osm' = Osm_add_way(osm, way)
    /\ UNCHANGED <<writer, rphase, decoder, rosm, rerr, vi, xml, tbl, dl>>

\* Osm::add_relation on a container.
InsertRelation ==
    /\ Elements(osm) < MaxElements
    /\ \E relation \in RelationInputs : osm' = Osm_add_relation(osm, relation)
    /\ UNCHANGED <<writer, rphase, decoder, rosm, rerr, vi, xml, tbl, dl>>

\* O5mWriter::write(&osm) on a fresh writer.
Write ==
    /\ Building
    /\ writer' = O5mWriter_write(writer, osm)
    /\ UNCHANGED <<osm, rphase, decoder, rosm, rerr, vi, xml, tbl, dl>>

\* O5mReader::new over the written bytes, and the start of read: Osm::default().
ReadStart ==
    /\ rphase = "idle"
    /\ writer.inner /= <<>>
    /\ rphase' = "reading"
    /\ decoder' = O5mDecoder_new(writer.inner, TRUE)
    /\ rosm' = Osm_default
    /\ UNCHANGED <<osm, writer, rerr, vi, xml, tbl, dl>>

\* What one round of the loop of read does with the result of parse_next.
ReadStep(r) ==
    /\ decoder' = r.d
    /\ rosm' = r.osm
    /\ rphase' = CASE r.st = "ok" /\ r.v -> "reading"
                   [] r.st = "ok" /\ ~r.v -> "ok"
                   [] r.st = "panic" -> "panic"
                   [] OTHER -> "err"
    /\ rerr' = IF r.st \in {"parse", "eof"} THEN ReadError(r) ELSE rerr

\* One round of the loop of O5mReader::read: parse_next, and on Ok(false) or
\* Err the return of read.
ParseNext ==
    /\ rphase = "reading"
    /\ ReadStep(O5mReader_parse_next(decoder, rosm))
    /\ UNCHANGED <<osm, writer, vi, xml, tbl, dl>>

(***************************************************************************)
(* Actions: a reader over bytes that did not come from the writer.         *)
(***************************************************************************)
\* The bytes short streams are made of: string and version zero, small
\* VarInts, the type codes, and codes the dispatcher has no arm for.
ByteAlphabet == {0, 1, 4, O5M_NODE, O5M_RELATION, O5M_HEADER, 240, O5M_EOF, O5M_RESET}

RECURSIVE SeqsUpTo(_, _)
SeqsUpTo(S, n) ==
    IF n = 0 THEN {<<>>}
    ELSE SeqsUpTo(S, n - 1) \cup {Append(q, b) : q \in SeqsUpTo(S, n - 1), b \in S}

\* reader.rs, tests never_ending_varint, invalid_string_reference,
\* invalid_relation_member_string, invalid_relation_member_type, unexpected_eof.
TestNeverEndingVarint == <<18>> \o [i \in 1..24 |-> 255]
TestInvalidStringReference ==
    <<18, 40, 144, 46, 0, 17, 244, 152, 131, 11, 3, 0, 0, 0, 0, 0, 0, 0>>
TestInvalidMemberString ==
    <<18, 40, 144, 46, 0, 17, 244, 152, 131, 11, 0, 255, 0, 0, 0, 0, 0, 0, 0, 0>>
TestInvalidMemberType ==
    <<18, 40, 144, 46, 0, 17, 244, 152, 131, 11, 0, 53, 105, 110, 110, 101, 114, 0,
      0, 0, 0, 0, 0>>
TestUnexpectedEof == <<18>>

\* A relation whose member string "1r" is a literal, and whose first tag is
\* reference 1: the entry the member pushed.
MemberAsTag == <<O5M_RESET, O5M_RELATION, 9, 2, 0, 5, 2, 0, 49, 114, 0, 1, O5M_EOF>>

\* A node with the tag "k"="v", a reset, and a node whose tag is reference 1.
ReferenceAfterReset ==
    <<O5M_NODE, 9, 2, 0, 2, 2, 0, 107, 0, 118, 0,
      O5M_RESET,
      O5M_NODE, 5, 2, 0, 2, 2, 1, O5M_EOF>>

\* The same without the reset: reference 1 is the tag of the first node.
ReferenceInTable ==
    <<O5M_NODE, 9, 2, 0, 2, 2, 0, 107, 0, 118, 0,
      O5M_NODE, 5, 2, 0, 2, 2, 1, O5M_EOF>>

\* A way of 3 bytes whose reference section claims 5, and one that claims 1.
WaySectionTooLong == <<O5M_WAY, 3, 2, 0, 5, O5M_EOF>>
WaySectionFits == <<O5M_WAY, 4, 2, 0, 1, 2, O5M_EOF>>

\* A header with the magic of the format, and headers with another payload.
HeaderGood == <<O5M_RESET, O5M_HEADER>> \o O5M_HEADER_DATA \o <<O5M_EOF>>
HeaderBad == <<O5M_RESET, O5M_HEADER, 4, 111, 53, 109, 49, O5M_EOF>>
HeaderShort == <<O5M_HEADER, 1, 0, O5M_EOF>>

\* A dataset of type 0xF1 with three bytes, to be skipped.
SkippedDataset == <<241, 3, 1, 2, 3, O5M_EOF>>

DecodeInputs ==
    SeqsUpTo(ByteAlphabet, MaxInputLen)
    \cup {TestNeverEndingVarint, TestInvalidStringReference, TestInvalidMemberString,
          TestInvalidMemberType, TestUnexpectedEof, MemberAsTag, ReferenceAfterReset,
          ReferenceInTable, WaySectionTooLong, WaySectionFits, HeaderGood, HeaderBad,
          HeaderShort, SkippedDataset}

\* O5mReader::new over any bytes, in a build with or without overflow checks,
\* and the start of read.
ReadBytes ==
    /\ rphase = "idle"
    /\ writer.inner = <<>>
    /\ \E data \in DecodeInputs, checks \in BOOLEAN :
          decoder' = O5mDecoder_new(data, checks)
    /\ rphase' = "reading"
    /\ rosm' = Osm_default
    /\ UNCHANGED <<osm, writer, rerr, vi, xml, tbl, dl>>

(***************************************************************************)
(* Actions: a VarInt written to a buffer and read back from it.            *)
(***************************************************************************)
ViIdle == [x |-> 0, signed |-> FALSE, phase |-> "idle", bytes |-> <<>>, rest |-> <<>>,
           st |-> "", value |-> 0, consumed |-> 0, got |-> <<>>, msg |-> ""]

\* Values at the boundaries of the 7 bit groups (unsigned) and of the 6 + 7 bit
\* groups (signed), and the values of the tests of varint.rs.
ViUnsigned ==
    {0, 323, 5922698} \cup {Pow2(k) - 1 : k \in 1..MaxVarIntBits}
                      \cup {Pow2(k) : k \in 1..MaxVarIntBits}

ViSigned == ViUnsigned \cup {(0 - x) - 1 : x \in ViUnsigned}

\* write_varint(x) on an empty Vec<u8>; `rest` is what the stream holds after it.
ViWrite ==
    /\ vi.phase = "idle"
    /\ \E signed \in BOOLEAN, rest \in {<<>>, <<5>>} :
        \E x \in (IF signed THEN ViSigned ELSE ViUnsigned) :
          vi' = [vi EXCEPT !.x = x, !.signed = signed, !.phase = "written",
                           !.rest = rest,
                           !.bytes = IF signed THEN write_varint_i64(<<>>, x)
                                     ELSE write_varint_u64(<<>>, x)]
    /\ UNCHANGED <<osm, writer, rphase, decoder, rosm, rerr, xml, tbl, dl>>

\* What the harness keeps of the result of read_varint.
ViResult(r) ==
    [vi EXCEPT !.phase = "read", !.st = r.st, !.consumed = r.r.off,
               !.value = IF r.st /= "ok" THEN 0
                         ELSE IF vi.signed THEN into_i64(r.v) ELSE into_u64(r.v)]

\* read_varint on the written bytes, then into_i64 or into_u64.
ViRead ==
    /\ vi.phase = "written"
    /\ vi' = ViResult(read_varint(SliceReader(vi.bytes \o vi.rest)))
    /\ UNCHANGED <<osm, writer, rphase, decoder, rosm, rerr, xml, tbl, dl>>

\* Streams of n bytes with continuation bit followed by a tail: the tail ends
\* the VarInt, or the stream ends first.
ViStreams ==
    {[i \in 1..n |-> c] \o tail :
        n \in 0..MaxStreamLen, c \in {128, 129, 200, 255},
        tail \in {<<>>, <<0>>, <<1>>, <<127>>, <<127, 128>>, <<0, 255>>}}

\* read_varint on a stream of any content; the bytes of the VarInt are kept
\* as they were read.
ViReadStream ==
    /\ vi.phase = "idle"
    /\ \E stream \in ViStreams :
          vi' = Let(read_varint(SliceReader(stream)), LAMBDA r :
                    [vi EXCEPT !.phase = "streamed", !.bytes = stream,
                               !.st = r.st, !.msg = r.msg, !.consumed = r.r.off,
                               !.got = IF r.st = "ok" THEN r.v ELSE <<>>])
    /\ UNCHANGED <<osm, writer, rphase, decoder, rosm, rerr, xml, tbl, dl>>

\* Byte sequences in the layout of a VarInt: bytes with continuation bit, then
\* one byte without; after a continuation the last byte carries payload.
ViEncodings ==
    {<<last>> : last \in {0, 1, 2, 64, 127}}
    \cup {front \o <<last>> :
            front \in SeqsUpTo({128, 129, 200, 255}, MaxVarIntLen - 1) \ {<<>>},
            last \in {1, 2, 64, 127}}

\* VarInt::new(b), into_u64 or into_i64, and From<u64> or From<i64> of the
\* number.
ViReencode ==
    /\ vi.phase = "idle"
    /\ \E signed \in BOOLEAN, b \in ViEncodings :
          vi' = Let(IF signed THEN into_i64(b) ELSE into_u64(b), LAMBDA x :
                    [vi EXCEPT !.phase = "reencoded", !.signed = signed,
                               !.bytes = b, !.value = x, !.x = x,
                               !.got = IF signed THEN VarInt_from_i64(x)
                                       ELSE VarInt_from_u64(x)])
    /\ UNCHANGED <<osm, writer, rphase, decoder, rosm, rerr, xml, tbl, dl>>

(***************************************************************************)
(* Actions: calls on a StringReferenceTable, as the encoder (reference,     *)
(* clear) and the decoder (push, get, clear) make them.                     *)
(***************************************************************************)
TableNew == [table |-> StringReferenceTable_new, ops |-> 0, last |-> "new",
             evicted |-> FALSE, out |-> <<>>]

\* A string of n bytes.
StringOfLen(n, b) == [i \in 1..n |-> b]

\* Strings at the limit of the entry length, one beyond it, and short ones.
TableStrings ==
    { <<0, 107, 0, 118, 0>>,
      StringOfLen(MAX_STRING_REFERENCE_LENGTH, 97),
      StringOfLen(MAX_STRING_REFERENCE_LENGTH + 1, 98) }

\* The table after push was called with n different short strings, the last
\* one in front; n is at most MAX_STRING_TABLE_SIZE.
TableAfterPushes(n) == [i \in 1..n |-> <<0, 1 + ((n - i) % 250), 0, (n - i) \div 250, 0>>]

\* A run of pushes of different strings on a new table, up to one entry
\* below the limit of the table or up to the limit.
TableFill ==
    /\ tbl.last = "new"
    /\ \E n \in {MAX_STRING_TABLE_SIZE - 1, MAX_STRING_TABLE_SIZE} :
          tbl' = [tbl EXCEPT !.table = TableAfterPushes(n), !.last = "fill"]
    /\ UNCHANGED <<osm, writer, rphase, decoder, rosm, rerr, vi, xml, dl>>

\* StringReferenceTable::push.
TablePush ==
    /\ tbl.ops < MaxTableOps
    /\ \E bytes \in TableStrings :
          tbl' = [table |-> StringReferenceTable_push(tbl.table, bytes),
                  ops |-> tbl.ops + 1, last |-> "push", out |-> <<>>,
                  evicted |-> /\ Len(tbl.table) = MAX_STRING_TABLE_SIZE
                              /\ Len(bytes) <= MAX_STRING_REFERENCE_LENGTH]
    /\ UNCHANGED <<osm, writer, rphase, decoder, rosm, rerr, vi, xml, dl>>

\* StringReferenceTable::reference.
TableReference ==
    /\ tbl.ops < MaxTableOps
    /\ \E bytes \in TableStrings :
          tbl' = Let(StringReferenceTable_reference(tbl.table, bytes), LAMBDA r :
                     [table |-> r.table, ops |-> tbl.ops + 1, last |-> "reference",
                      out |-> r.bytes,
                      evicted |-> /\ Len(tbl.table) = MAX_STRING_TABLE_SIZE
                                  /\ r.bytes = bytes
                                  /\ Len(bytes) <= MAX_STRING_REFERENCE_LENGTH])
    /\ UNCHANGED <<osm, writer, rphase, decoder, rosm, rerr, vi, xml, dl>>

\* StringReferenceTable::get.
TableGet ==
    /\ tbl.ops < MaxTableOps
    /\ \E idx \in {1, MAX_STRING_TABLE_SIZE, MAX_STRING_TABLE_SIZE + 1} :
          tbl' = [tbl EXCEPT !.ops = @ + 1, !.last = "get", !.evicted = FALSE,
                             !.out = StringReferenceTable_get(tbl.table, idx).v]
    /\ UNCHANGED <<osm, writer, rphase, decoder, rosm, rerr, vi, xml, dl>>

\* StringReferenceTable::clear.
TableClear ==
    /\ tbl.ops < MaxTableOps
    /\ tbl' = [tbl EXCEPT !.table = <<>>, !.ops = @ + 1, !.last = "clear",
                          !.evicted = FALSE, !.out = <<>>]
    /\ UNCHANGED <<osm, writer, rphase, decoder, rosm, rerr, vi, xml, dl>>

(***************************************************************************)
(* Actions: a value encoded on a register of an encoder's DeltaState and    *)
(* the delta decoded on the same register of a decoder's DeltaState.       *)
(***************************************************************************)
DeltaIdle == [enc |-> DeltaState_new, dec |-> DeltaState_new, build |-> "",
              phase |-> "new", steps |-> 0, panic |-> FALSE,
              register |-> "Id", value |-> 0, out |-> 0]

\* Values over the whole of i64.
I64Inputs == {I64_MIN, 0 - 1, 1, 70, I64_MAX}

\* DeltaState::encode(register, value) on the encoder, then
\* DeltaState::decode(register, delta) on the decoder.
DeltaStep ==
    /\ dl.steps < MaxDeltaSteps
    /\ ~dl.panic
    /\ \E k \in Delta, value \in I64Inputs,
          build \in (IF dl.build = "" THEN {"debug", "release"} ELSE {dl.build}) :
          dl' = Let(DeltaValue_delta(dl.enc[k], value, build), LAMBDA e :
                Let(DeltaValue_value(dl.dec[k], e.v, build), LAMBDA d :
                    [enc |-> [dl.enc EXCEPT ![k] = e.state],
                     dec |-> IF e.panic THEN dl.dec ELSE [dl.dec EXCEPT ![k] = d.state],
                     build |-> build, phase |-> "stepped", steps |-> dl.steps + 1,
                     panic |-> e.panic \/ d.panic,
                     register |-> k, value |-> value, out |-> d.v]))
    /\ UNCHANGED <<osm, writer, rphase, decoder, rosm, rerr, vi, xml, tbl>>

\* O5mEncoder::reset and O5mDecoder::reset: DeltaState::new on both sides.
DeltaReset ==
    /\ dl.phase = "stepped"
    /\ ~dl.panic
    /\ dl' = [dl EXCEPT !.enc = DeltaState_new, !.dec = DeltaState_new,
                        !.phase = "reset"]
    /\ UNCHANGED <<osm, writer, rphase, decoder, rosm, rerr, vi, xml, tbl>>

(***************************************************************************)
(* Actions: calls on an OsmBuilder; osm is the Osm of the builder.          *)
(***************************************************************************)
\* Rings and lines over three coordinates: closed, open, sharing coordinates
\* with each other, and without coordinates.
BuilderCoordinates == {Coordinate(1, 1), Coordinate(10, 10), Coordinate(5, 5)}
RingInputs ==
    { <<Coordinate(1, 1), Coordinate(10, 10), Coordinate(5, 5), Coordinate(1, 1)>>,
      <<Coordinate(5, 5), Coordinate(2, 3)>>,
      <<>> }
TagInputs == {<<>>, <<Tag(StrK, StrV)>>}

\* OsmBuilder::add_point.
BuildPoint ==
    /\ Elements(osm) < MaxElements
    /\ \E c \in BuilderCoordinates, tags \in TagInputs :
          osm' = OsmBuilder_add_point(osm, c, tags).osm
    /\ UNCHANGED <<writer, rphase, decoder, rosm, rerr, vi, xml, tbl, dl>>

\* OsmBuilder::add_polyline.
BuildPolyline ==
    /\ Elements(osm) < MaxElements
    /\ \E cs \in RingInputs, tags \in TagInputs :
          osm' = OsmBuilder_add_polyline(osm, cs, tags).osm
    /\ UNCHANGED <<writer, rphase, decoder, rosm, rerr, vi, xml, tbl, dl>>

\* OsmBuilder::add_polygon with one ring or more.
BuildPolygon ==
    /\ Elements(osm) < MaxElements
    /\ \E parts \in SeqsUpTo(RingInputs, MaxRings) \ {<<>>}, tags \in TagInputs :
          osm' = OsmBuilder_add_polygon(osm, parts, tags).osm
    /\ UNCHANGED <<writer, rphase, decoder, rosm, rerr, vi, xml, tbl, dl>>

(***************************************************************************)
(* Actions: XmlReader::read over a file.                                   *)
(***************************************************************************)
XmlIdle ==
    [phase |-> "idle", file |-> <<>>, doc |-> <<>>, events |-> <<>>, line |-> 0,
     osm |-> Osm_default]

\* The top-level events of a file: nodes inside and outside the bounds the
\* file declares, two different bounds, a way, a relation, <osm>, text with a
\* newline, a node whose attributes do not parse, and an element of another
\* name.
XmlEventInputs ==
    { XmlEvent("Empty", "node", TRUE, Node(1, Coordinate(1, 2), Meta_default), 0, 0),
      XmlEvent("Empty", "node", TRUE, Node(2, Coordinate(40, 50), Meta_default), 0, 0),
      XmlEvent("Start", "node", TRUE,
               Node(70, Coordinate(0 - 3, 5), Meta(<<Tag(StrK, StrV)>>, Some(1), None)), 0, 1),
      XmlEvent("Empty", "bounds", TRUE, Attributes_create_boundary(0, 0, 10, 10), 0, 0),
      XmlEvent("Empty", "bounds", TRUE, Attributes_create_boundary(0 - 5, 1, 3, 4), 0, 0),
      XmlEvent("Start", "way", TRUE, Way(3, <<1, 2>>, Meta_default), 0, 2),
      XmlEvent("Start", "relation", TRUE,
               Relation(6, <<RelationMember("Way", 3, StrR)>>, Meta_default), 0, 1),
      XmlEvent("Start", "osm", TRUE, NoElement, 0, 0),
      XmlEvent("Text", "", TRUE, NoElement, 1, 0),
      XmlEvent("Empty", "node", FALSE, NoElement, 0, 0),
      XmlEvent("Empty", "note", TRUE, NoElement, 0, 0) }

\* XmlReader::new over a file, and the start of read: Osm::default().
XmlReadStart ==
    /\ xml.phase = "idle"
    /\ \E events \in SeqsUpTo(XmlEventInputs, MaxElements) :
          xml' = [phase |-> "reading", file |-> <<>>, doc |-> events, events |-> events,
                  line |-> 0, osm |-> Osm_default]
    /\ UNCHANGED <<osm, writer, rphase, decoder, rosm, rerr, vi, tbl, dl>>

\* XmlWriter::write of the map into a file, and XmlReader::new over the file.
XmlWriteStart ==
    /\ xml.phase = "idle"
    /\ Building
    /\ xml' = [phase |-> "reading", file |-> XmlWriter_write(osm),
               doc |-> EventsOf(XmlWriter_write(osm)),
               events |-> EventsOf(XmlWriter_write(osm)),
               line |-> 0, osm |-> Osm_default]
    /\ UNCHANGED <<osm, writer, rphase, decoder, rosm, rerr, vi, tbl, dl>>

\* One round of the loop of XmlReader::read: parse_event, on Ok(false) the
\* unfreezing of the boundary and the return of the map, on Err the return of
\* the error.
XmlParseEvent ==
    /\ xml.phase = "reading"
    /\ xml' = Let(XmlReader_parse_event(xml, xml.osm), LAMBDA r :
                CASE r.st = "ok" -> [r.x EXCEPT !.osm = r.osm]
                  [] r.st = "eof" ->
                       [r.x EXCEPT !.phase = "ok", !.osm = XmlReader_read_return(r.osm)]
                  [] OTHER -> [r.x EXCEPT !.phase = "err", !.osm = r.osm])
    /\ UNCHANGED <<osm, writer, rphase, decoder, rosm, rerr, vi, tbl, dl>>

Init ==
    /\ osm = Osm_default
    /\ writer = O5mWriter_new
    /\ rphase = "idle"
    /\ decoder = O5mDecoder_new(<<>>, TRUE)
    /\ rosm = Osm_default
    /\ rerr = NoError
    /\ vi = ViIdle
    /\ xml = XmlIdle
    /\ tbl = TableNew
    /\ dl = DeltaIdle

Next == AddNode \/ AddWay \/ AddRelation \/ Write \/ ReadStart \/ ParseNext

\* A caller builds a map, writes it and reads the bytes back.
Spec == Init /\ [][Next]_vars

NextXmlFile == AddNode \/ AddWay \/ AddRelation \/ XmlWriteStart \/ XmlParseEvent

\* A caller builds a map, writes it as XML and reads the file back.
SpecXmlFile == Init /\ [][NextXmlFile]_vars

NextCoord == AddCoordinateNode \/ Write \/ ReadStart \/ ParseNext

\* The same with nodes whose coordinates lie at the ends of the i32 range.
SpecCoord == Init /\ [][NextCoord]_vars

NextDecode == ReadBytes \/ ParseNext

\* A reader over bytes of any origin.
SpecDecode == Init /\ [][NextDecode]_vars

NextVarInt == ViWrite \/ ViRead

\* A VarInt written and read back.
SpecVarInt == Init /\ [][NextVarInt]_vars

NextContainer == InsertNode \/ InsertWay \/ InsertRelation

\* Inserts into a container created by Osm::default().
SpecContainer == Init /\ [][NextContainer]_vars

NextXml == XmlReadStart \/ XmlParseEvent

\* An XML file read into a map.
SpecXml == Init /\ [][NextXml]_vars

NextTable == TableFill \/ TablePush \/ TableReference \/ TableGet \/ TableClear

\* Calls on a string reference table.
SpecTable == Init /\ [][NextTable]_vars

NextDelta == DeltaStep \/ DeltaReset

\* Values passed through a pair of delta registers.
SpecDelta == Init /\ [][NextDelta]_vars

NextBuilder == BuildPoint \/ BuildPolyline \/ BuildPolygon

\* A map built through an OsmBuilder.
SpecBuilder == Init /\ [][NextBuilder]_vars

NextVarIntRead == ViReadStream

NextVarIntCanon == ViReencode

\* A VarInt decoded and encoded again.
SpecVarIntCanon == Init /\ [][NextVarIntCanon]_vars

\* A VarInt read from a stream of any content.
SpecVarIntRead == Init /\ [][NextVarIntRead]_vars

(***************************************************************************)
(* Properties.                                                             *)
(***************************************************************************)
\* read has returned.
Done == rphase \in {"ok", "err", "panic"}

\* Two optional boundaries with the same corners (freeze aside).
SameCorners(a, b) ==
    IF IsSome(a) /\ IsSome(b) THEN a[1].min = b[1].min /\ a[1].max = b[1].max
    ELSE a = b

\* C1: for every map built through the public operations, reading what write
\* produced succeeds and returns the same nodes, ways, relations and boundary
\* corners.
C1_WriteReadRoundTrip ==
    Done => /\ rphase = "ok"
            /\ rosm.nodes = osm.nodes
            /\ rosm.ways = osm.ways
            /\ rosm.relations = osm.relations
            /\ SameCorners(rosm.boundary, osm.boundary)

\* C2: for every byte stream F produced by write, read(F) succeeds and writing
\* the map read gives F again, byte for byte.
C2_ReadWriteStable ==
    Done => /\ rphase = "ok"
            /\ O5mWriter_write(O5mWriter_new, rosm).inner = writer.inner

\* C3: write_varint followed by read_varint and into_u64 / into_i64 returns
\* the value written and consumes exactly the bytes written.
C3_VarIntRoundTrip ==
    vi.phase = "read" => /\ vi.st = "ok"
                         /\ vi.value = vi.x
                         /\ vi.consumed = Len(vi.bytes)

\* C4: nodes with coordinates anywhere in the i32 range, the ends included,
\* are read back with the coordinates they were written with.
C4_CoordinatesRoundTrip ==
    Done => /\ rphase = "ok"
            /\ Len(rosm.nodes) = Len(osm.nodes)
            /\ \A i \in 1..Len(osm.nodes) :
                  rosm.nodes[i].coordinate = osm.nodes[i].coordinate

\* The reader has just read the second node of a map whose first node lies at
\* the upper end of the range and whose second at the lower end: the delta
\* written was truncated, and the running sum of the decoder has left the
\* i32 range.
C4_Witness ==
    /\ rphase = "reading"
    /\ Len(rosm.nodes) = 2
    /\ osm.nodes[1].coordinate.lat = I32_MAX
    /\ osm.nodes[2].coordinate.lat = I32_MIN
    /\ rosm.nodes[2].coordinate = osm.nodes[2].coordinate
    /\ decoder.delta["Lat"] > I32_MAX

\* The map holds a way without references or a relation without members.
HasEmptySection(o) ==
    \/ \E i \in 1..Len(o.ways) : o.ways[i].refs = <<>>
    \/ \E i \in 1..Len(o.relations) : o.relations[i].members = <<>>

\* What a fresh encoder writes for the way without its tags: the id, the meta
\* and a reference section length of one byte, zero.
ExplicitZeroLength(way) ==
    O5mEncoder_write_way(O5mEncoder_new, [way EXCEPT !.meta.tags = <<>>]).bytes
        = VarInt_from_i64(way.id) \o O5mEncoder_write_meta(O5mEncoder_new, way.meta).bytes
          \o <<0>>

\* C5: a way with no references and a relation with no members are written
\* with an explicit section length of zero and read back as they were.
C5_EmptySections ==
    (Done /\ HasEmptySection(osm)) =>
        /\ rphase = "ok"
        /\ rosm.ways = osm.ways
        /\ rosm.relations = osm.relations
        /\ \A i \in 1..Len(osm.ways) :
              osm.ways[i].refs = <<>> => ExplicitZeroLength(osm.ways[i])

\* C6: read never panics, whatever the bytes.
C6_NoPanic == rphase /= "panic"

\* "Ending at byte N: ".
EndingAt(n) == "Ending at byte " \o ToString(n) \o ": "

\* C7, as amended: when read fails with an Error that carries a message (a
\* parse error), the message is "Ending at byte N: " followed by the message
\* parse_next gave, N the position of the decoder; an io::Error (the end of the
\* input) carries no message and reads "Unexpected end of file.".
C7_PositionPrefixOnMessages ==
    [][(rphase = "reading" /\ rphase' = "err") =>
         IF O5mReader_parse_next(decoder, rosm).st = "parse"
         THEN /\ rerr'.message
                   = Some(EndingAt(O5mDecoder_position(decoder'))
                          \o O5mReader_parse_next(decoder, rosm).msg)
              /\ rerr'.display = rerr'.message[1]
         ELSE /\ rerr'.message = None
              /\ rerr'.display = "Unexpected end of file."]_vars

\* read of the bytes of the test never_ending_varint has failed.
C7_Witness ==
    /\ rphase = "err"
    /\ decoder.inner.data = TestNeverEndingVarint
    /\ rerr.display = "Ending at byte 10: Varint overflow, read 9 bytes."

\* C7, as the specification has it: whenever read fails, whatever the kind of
\* the error, what the error says begins with "Ending at byte N: ".
C7_PositionPrefixAlways ==
    [][(rphase = "reading" /\ rphase' = "err") =>
         rerr'.display
            = EndingAt(O5mDecoder_position(decoder'))
              \o (IF O5mReader_parse_next(decoder, rosm).st = "parse"
                  THEN O5mReader_parse_next(decoder, rosm).msg
                  ELSE "Unexpected end of file.")]_vars

\* The byte the decoder reads next, if the input has one.
NextByte(d) ==
    IF d.inner.off < Len(d.inner.data) THEN Some(d.inner.data[d.inner.off + 1]) ELSE None

\* A type code below 0xF0 that is none of node, way, relation, bounding box
\* and header.
UnknownTypeCode(b) ==
    b < 240 /\ b \notin {O5M_NODE, O5M_WAY, O5M_RELATION, O5M_BOUNDING_BOX, O5M_HEADER}

\* C8: a type code below 0xF0 that is not 0x10, 0x11, 0x12, 0xDB or 0xE0 makes
\* read fail.
C8_UnknownTypeFails ==
    [][(/\ rphase = "reading"
        /\ IsSome(NextByte(decoder))
        /\ UnknownTypeCode(NextByte(decoder)[1])) => rphase' = "err"]_vars

\* The five bytes after the next one are the magic of the format.
HeaderMagicFollows(d) ==
    /\ d.inner.off + 6 <= Len(d.inner.data)
    /\ SubSeq(d.inner.data, d.inner.off + 2, d.inner.off + 6) = O5M_HEADER_DATA

\* C9: on the header type code 0xE0 the decoder checks that 04 'o' '5' 'm' '2'
\* follows and fails otherwise; the magic is consumed with the header and not
\* dispatched as type codes.
C9_HeaderChecked ==
    [][(rphase = "reading" /\ NextByte(decoder) = Some(O5M_HEADER)) =>
         IF HeaderMagicFollows(decoder)
         THEN rphase' = "reading" /\ decoder'.inner.off = decoder.inner.off + 6
         ELSE rphase' = "err"]_vars

\* "String reference 'r' not found in table with size 'n'."
ReferenceNotFound(r, n) ==
    "String reference '" \o ToString(r) \o "' not found in table with size '"
    \o ToString(n) \o "'."

\* The decoder d about to read `bytes`.
Reading(d, bytes) ==
    O5mDecoder_set_limit([d EXCEPT !.inner = SliceReader(bytes)], Len(bytes))

\* Each of the three readers of strings rejects reference r in decoder d with
\* the message of the table.
Rejected(d, r) ==
    /\ O5mDecoder_read_string_pair(Reading(d, VarInt_from_u64(r))).st = "parse"
    /\ O5mDecoder_read_string_pair(Reading(d, VarInt_from_u64(r))).d
         = O5mDecoder_read_uvarint(Reading(d, VarInt_from_u64(r))).d
    /\ O5mDecoder_read_string_pair(Reading(d, VarInt_from_u64(r))).msg
         = ReferenceNotFound(r, Len(d.string_table))
    /\ O5mDecoder_read_user(Reading(d, VarInt_from_u64(r))).msg
         = ReferenceNotFound(r, Len(d.string_table))
    /\ O5mDecoder_read_string(Reading(d, VarInt_from_u64(r))).msg
         = ReferenceNotFound(r, Len(d.string_table))

\* The decoder after a reset and the literal "k".
AfterResetAndLiteral(d) ==
    O5mDecoder_read_string(Reading(O5mDecoder_reset(d), <<0>> \o StrK \o <<0>>)).d

\* C10: a string reference r >= 1 beyond the size n of the table fails with
\* "String reference 'r' not found in table with size 'n'."; after a reset
\* every reference is rejected, until a literal has been inserted.
C10_ReferenceBeyondTable ==
    \A r \in 1..MaxRef :
        /\ r > Len(decoder.string_table) => Rejected(decoder, r)
        /\ Rejected(O5mDecoder_reset(decoder), r)
        /\ O5mDecoder_read_string(Reading(AfterResetAndLiteral(decoder), <<1>>)).st = "ok"
        /\ r > 1 => Rejected(AfterResetAndLiteral(decoder), r)

\* read has failed on reference 1 after a reset, the table having held an
\* entry before the reset.
C10_Witness ==
    /\ rphase = "err"
    /\ decoder.inner.data = ReferenceAfterReset
    /\ decoder.string_table = <<>>
    /\ rerr.display
         = "Ending at byte 19: String reference '1' not found in table with size '0'."

\* Member strings as they stand in the stream: empty, one byte, a stray
\* 0xFF, "0r", "1r", "2r", "5inner", "xr", and e-acute followed by "r".
MemberStrings ==
    {<<>>, <<49>>, <<255>>, <<48, 114>>, <<49, 114>>, <<50, 114>>,
     <<53, 105, 110, 110, 101, 114>>, <<120, 114>>, <<195, 169, 114>>}

\* The decoder d about to read a member: id delta 1, then the literal s.
ReadingMember(d, s) == Reading(d, <<2, 0>> \o s \o <<0>>)

\* The register and the variant the type characters '0', '1', '2' select.
MemberRegister(c) ==
    CASE c = 48 -> "RelNodeRef" [] c = 49 -> "RelWayRef" [] c = 50 -> "RelRelRef"
MemberVariant(c) ==
    CASE c = 48 -> "Node" [] c = 49 -> "Way" [] c = 50 -> "Relation"

\* What the member string s has to decode to in decoder d.
MemberExpected(d, s, r) ==
    IF Len(from_utf8_lossy(s)) < 2 \/ IsContinuation(from_utf8_lossy(s)[2])
    THEN r.st = "parse" /\ r.msg = "Corrupt relation member reference data."
    ELSE IF s[1] \notin {48, 49, 50}
    THEN r.st = "parse"
         /\ r.msg = "Invalid relation member type '" \o Chr(s[1]) \o "'."
    ELSE /\ r.st = "ok"
         /\ r.v = [kind |-> MemberVariant(s[1]),
                   id |-> d.delta[MemberRegister(s[1])] + 1,
                   role |-> Tail(s)]

\* C11: a member string shorter than 2 bytes, or whose offset 1 is no
\* character boundary, fails with "Corrupt relation member reference data.";
\* a first character other than '0', '1', '2' fails with "Invalid relation
\* member type 'X'."; '0', '1', '2' give Node, Way, Relation with the rest of
\* the string as role.
C11_RelationMemberStrings ==
    \A s \in MemberStrings :
        MemberExpected(decoder, s,
                       O5mDecoder_read_relation_member(ReadingMember(decoder, s)))

\* read has failed on the member "5inner" of the test
\* invalid_relation_member_type.
C11_Witness ==
    /\ rphase = "err"
    /\ decoder.inner.data = TestInvalidMemberType
    /\ rerr.display = "Ending at byte 18: Invalid relation member type '5'."

\* The number of leading bytes of a stream that carry the continuation bit.
RECURSIVE LeadingContinuation(_)
LeadingContinuation(bytes) ==
    IF bytes = <<>> \/ Head(bytes) < 128 THEN 0
    ELSE 1 + LeadingContinuation(Tail(bytes))

\* C12: nine leading continuation bytes make read_varint fail with the parse
\* error "Varint overflow, read 9 bytes." after exactly nine bytes; a VarInt
\* that is returned has at most nine bytes; a stream that ends before a byte
\* without continuation bit gives an end-of-input error.
C12_VarIntOverflowAndShortRead ==
    vi.phase = "streamed" =>
        Let(LeadingContinuation(vi.bytes), LAMBDA n :
            /\ n >= 9 => /\ vi.st = "parse"
                         /\ vi.msg = "Varint overflow, read 9 bytes."
                         /\ vi.consumed = 9
            /\ vi.st = "ok" => /\ Len(vi.got) <= 9
                               /\ vi.got = SubSeq(vi.bytes, 1, n + 1)
                               /\ vi.consumed = n + 1
            /\ (n < 9 /\ n = Len(vi.bytes)) => vi.st = "eof"
            /\ (n < 9 /\ n < Len(vi.bytes)) => vi.st = "ok")

\* Nine continuation bytes and a tenth byte that would have ended the VarInt.
C12_Witness ==
    /\ vi.phase = "streamed"
    /\ LeadingContinuation(vi.bytes) = 9
    /\ Len(vi.bytes) = 10
    /\ vi.st = "parse"
    /\ vi.consumed = 9

\* The items of an o5m stream, without decoding them: a reset or EOF byte, or
\* a type code with its length and payload.  A stream that cannot be cut into
\* items ends in an item with code -1.
Drop(bytes, n) == SubSeq(bytes, n + 1, Len(bytes))
Item(code, payload) == [code |-> code, payload |-> payload]

RECURSIVE StreamItems(_)
StreamItems(bytes) ==
    IF bytes = <<>> THEN <<>>
    ELSE IF Head(bytes) \in {O5M_RESET, O5M_EOF}
    THEN <<Item(Head(bytes), <<>>)>> \o StreamItems(Tail(bytes))
    ELSE Let(read_varint(SliceReader(Tail(bytes))), LAMBDA len :
         IF len.st /= "ok" \/ into_u64(len.v) > Len(bytes) - 1 - len.r.off
         THEN <<Item(-1, <<>>)>>
         ELSE <<Item(Head(bytes),
                     SubSeq(bytes, 2 + len.r.off, 1 + len.r.off + into_u64(len.v)))>>
              \o StreamItems(Drop(bytes, 1 + len.r.off + into_u64(len.v))))

Codes(items) == [i \in 1..Len(items) |-> items[i].code]
Repeat(x, n) == [i \in 1..n |-> x]

\* The ids of the datasets of one group: each payload starts with the signed
\* delta to the id of the dataset before it, counted from 0 after a reset.
RECURSIVE GroupIds(_, _)
GroupIds(items, last) ==
    IF items = <<>> THEN <<>>
    ELSE Let(last + into_i64(read_varint(SliceReader(Head(items).payload)).v),
             LAMBDA id : <<id>> \o GroupIds(Tail(items), id))

Ids(elements) == [i \in 1..Len(elements) |-> elements[i].id]

\* The codes a written map has to show, in their order.
WriteOrder(o) ==
    <<O5M_RESET, O5M_HEADER>>
    \o (IF IsSome(o.boundary) THEN <<O5M_BOUNDING_BOX>> ELSE <<>>)
    \o <<O5M_RESET>> \o Repeat(O5M_NODE, Len(o.nodes))
    \o <<O5M_RESET>> \o Repeat(O5M_WAY, Len(o.ways))
    \o <<O5M_RESET>> \o Repeat(O5M_RELATION, Len(o.relations))
    \o <<O5M_EOF>>

\* The datasets with the given code of a stream, in stream order.
Datasets(items, code) == SelectSeq(items, LAMBDA it : it.code = code)

WrittenInOrder(o, bytes) ==
    Let(StreamItems(bytes), LAMBDA items :
        /\ Codes(items) = WriteOrder(o)
        /\ items[2].payload = SubSeq(O5M_HEADER_DATA, 2, 5)
        /\ Len(Datasets(items, O5M_RESET)) = 4
        /\ bytes[Len(bytes)] = O5M_EOF
        /\ GroupIds(Datasets(items, O5M_NODE), 0) = Ids(o.nodes)
        /\ GroupIds(Datasets(items, O5M_WAY), 0) = Ids(o.ways)
        /\ GroupIds(Datasets(items, O5M_RELATION), 0) = Ids(o.relations))

\* C13: write emits reset, header with magic, the bounding box iff the map has
\* a boundary, reset, the nodes in order, reset, the ways, reset, the
\* relations, and EOF as last byte; four resets, also around empty groups.
C13_WriteOrder ==
    /\ \A o \in {osm, [osm EXCEPT !.boundary = None]} :
          WrittenInOrder(o, O5mWriter_write(O5mWriter_new, o).inner)
    /\ writer.inner /= <<>> => WrittenInOrder(osm, writer.inner)

\* A map with a node, a way and a relation has been written.
C13_Witness ==
    /\ writer.inner /= <<>>
    /\ Len(osm.nodes) >= 1 /\ Len(osm.ways) >= 1 /\ Len(osm.relations) >= 1

\* C14: after any sequence of add_node, add_way and add_relation, max_id is at
\* least the id of every node, way and relation of the container.
C14_MaxIdBoundsEveryId ==
    /\ \A i \in 1..Len(osm.nodes) : osm.max_id >= osm.nodes[i].id
    /\ \A i \in 1..Len(osm.ways) : osm.max_id >= osm.ways[i].id
    /\ \A i \in 1..Len(osm.relations) : osm.max_id >= osm.relations[i].id

\* The largest of the ids of a non-empty sequence of elements.
MaxOfIds(elements) ==
    CHOOSE m \in {elements[i].id : i \in 1..Len(elements)} :
        \A i \in 1..Len(elements) : m >= elements[i].id

\* C15: after a non-empty sequence of add_node calls on a fresh container,
\* whatever the ids, max_id is the maximum of the inserted node ids.
C15_MaxIdIsMaximumOfNodeIds ==
    (Len(osm.nodes) >= 1 /\ osm.ways = <<>> /\ osm.relations = <<>>)
        => osm.max_id = MaxOfIds(osm.nodes)

\* The id of the last node of a sequence that has coordinate c.
RECURSIVE LastIdAt(_, _)
LastIdAt(nodes, c) ==
    IF nodes = <<>> THEN None
    ELSE IF nodes[Len(nodes)].coordinate = c THEN Some(nodes[Len(nodes)].id)
    ELSE LastIdAt(Front(nodes), c)

\* Coordinates to look up: those of the inserted nodes and one of no node.
LookupCoordinates == SharedCoordinates \cup {Coordinate(7, 7)}

\* C16: find_node_id(c) is the id of the most recently inserted node with
\* coordinate c, None when there is none; add_way and add_relation leave the
\* coordinate index unchanged.
C16_FindNodeId ==
    /\ \A c \in LookupCoordinates : Osm_find_node_id(osm, c) = LastIdAt(osm.nodes, c)
    /\ \A way \in WayInputs :
          Osm_add_way(osm, way).node_id_index = osm.node_id_index
    /\ \A relation \in RelationInputs :
          Osm_add_relation(osm, relation).node_id_index = osm.node_id_index

\* Two nodes with different ids share a coordinate, and a way was added after.
C16_Witness ==
    /\ Len(osm.nodes) = 2
    /\ osm.nodes[1].coordinate = osm.nodes[2].coordinate
    /\ osm.nodes[1].id /= osm.nodes[2].id
    /\ Len(osm.ways) = 1

\* The boundary of map o, when it is present and not frozen, contains every
\* node of o.
BoundaryContainsNodes(o) ==
    (IsSome(o.boundary) /\ ~o.boundary[1].freeze) =>
        \A i \in 1..Len(o.nodes) :
            /\ o.boundary[1].min.lat <= o.nodes[i].coordinate.lat
            /\ o.nodes[i].coordinate.lat <= o.boundary[1].max.lat
            /\ o.boundary[1].min.lon <= o.nodes[i].coordinate.lon
            /\ o.nodes[i].coordinate.lon <= o.boundary[1].max.lon

\* C17: in every map built through add_node and in every map the o5m reader
\* or the XML reader returns, a boundary that is present and not frozen
\* contains every node of the map.
C17_UnfrozenBoundaryContainsNodes ==
    /\ BoundaryContainsNodes(osm)
    /\ rphase = "ok" => BoundaryContainsNodes(rosm)
    /\ xml.phase = "ok" => BoundaryContainsNodes(xml.osm)

\* Inserts into map o leave the freeze flag of its boundary as it is, and an
\* expand of its boundary, when frozen, leaves min and max as they are.
FreezeKept(o) ==
    /\ \A c \in CoordinateInputs \cup SharedCoordinates :
          Let(Osm_add_node(o, Node(1, c, Meta_default)), LAMBDA after :
              /\ IsSome(after.boundary) = IsSome(o.boundary)
              /\ IsSome(o.boundary) =>
                    /\ after.boundary[1].freeze = o.boundary[1].freeze
                    /\ o.boundary[1].freeze =>
                          /\ Boundary_expand(o.boundary[1], c).min = o.boundary[1].min
                          /\ Boundary_expand(o.boundary[1], c).max = o.boundary[1].max
                          /\ after.boundary = o.boundary)
    /\ \A way \in WayInputs : Osm_add_way(o, way).boundary = o.boundary
    /\ \A relation \in RelationInputs :
          Osm_add_relation(o, relation).boundary = o.boundary

\* C18: expand on a frozen boundary leaves min and max unchanged, and no
\* insert (add_node, add_way, add_relation) changes the freeze flag of the
\* boundary of the container.
C18_FrozenBoundaryIgnoresExpansion ==
    FreezeKept(osm) /\ FreezeKept(rosm) /\ FreezeKept(xml.osm)

\* The reader holds a frozen boundary and has added a node under it.
C18_Witness ==
    /\ rphase \in {"reading", "ok"}
    /\ IsSome(rosm.boundary) /\ rosm.boundary[1].freeze
    /\ Len(rosm.nodes) >= 1

\* The smallest and the largest of a non-empty set of integers.
MinOf(S) == CHOOSE m \in S : \A x \in S : m <= x
MaxOf(S) == CHOOSE m \in S : \A x \in S : m >= x
Lats(nodes) == {nodes[i].coordinate.lat : i \in 1..Len(nodes)}
Lons(nodes) == {nodes[i].coordinate.lon : i \in 1..Len(nodes)}

\* C19: from Osm::default(), after any non-empty sequence of node inserts the
\* corners of the boundary are the component-wise minimum and maximum of the
\* inserted coordinates, whatever the coordinates and their order; after the
\* first insert both corners are that coordinate.
C19_BoundaryIsMinMaxOfNodes ==
    Len(osm.nodes) >= 1 =>
        /\ IsSome(osm.boundary)
        /\ osm.boundary[1].min = Coordinate(MinOf(Lats(osm.nodes)), MinOf(Lons(osm.nodes)))
        /\ osm.boundary[1].max = Coordinate(MaxOf(Lats(osm.nodes)), MaxOf(Lons(osm.nodes)))

\* Signed VarInts as the format defines them, with the numbers they stand for:
\* 0, -1, 1, 4, -65, and the ends of the coordinate range.
Signed(bytes, value) == [bytes |-> bytes, value |-> value]
SignedLiterals ==
    <<Signed(<<0>>, 0), Signed(<<1>>, 0 - 1), Signed(<<2>>, 1), Signed(<<8>>, 4),
      Signed(<<129, 1>>, 0 - 65), Signed(<<254, 3>>, 255), Signed(<<255, 3>>, 0 - 256)>>

\* Four of them, as the payload of a bounding-box dataset.
CornerLiterals ==
    {<<SignedLiterals[a], SignedLiterals[b], SignedLiterals[c], SignedLiterals[d]>> :
        a \in {1, 5, 7}, b \in {2, 4}, c \in {3, 6}, d \in {4, 5}}

BoundingBoxDataset(t) ==
    Frame(O5M_BOUNDING_BOX, t[1].bytes \o t[2].bytes \o t[3].bytes \o t[4].bytes)

\* The four signed VarInts a payload starts with, in stream order.
RECURSIVE SignedValues(_, _)
SignedValues(r, n) ==
    IF n = 0 THEN <<>>
    ELSE Let(read_varint(r), LAMBDA x :
             IF x.st /= "ok" THEN <<>>
             ELSE <<into_i64(x.v)>> \o SignedValues(x.r, n - 1))

\* The corners of a boundary in the order of the format.
Corners(b) == <<b.min.lon, b.min.lat, b.max.lon, b.max.lat>>

\* C20: a bounding-box dataset is decoded from four signed VarInts in the
\* order min-lon, min-lat, max-lon, max-lat into a frozen boundary that takes
\* the place of the boundary of the map; nodes decoded after it leave its
\* corners unchanged; the writer emits the corners of the boundary of the map
\* in that order.
C20_BoundingBoxOrder ==
    /\ \A t \in CornerLiterals :
          Let(O5mReader_parse_next(O5mDecoder_new(BoundingBoxDataset(t), TRUE), rosm),
              LAMBDA r :
                /\ r.st = "ok"
                /\ r.osm = [rosm EXCEPT !.boundary =
                               Some([min |-> Coordinate(t[2].value, t[1].value),
                                     max |-> Coordinate(t[4].value, t[3].value),
                                     freeze |-> TRUE])])
    /\ (rphase \in {"reading", "ok"} /\ Len(rosm.nodes) >= 1) =>
          rosm.boundary = Some([osm.boundary[1] EXCEPT !.freeze = TRUE])
    /\ writer.inner /= <<>> =>
          Let(StreamItems(writer.inner)[3], LAMBDA box :
              /\ box.code = O5M_BOUNDING_BOX
              /\ SignedValues(SliceReader(box.payload), 4) = Corners(osm.boundary[1]))

\* The reader has taken a bounding box whose corners differ in latitude and
\* longitude, and two nodes after it.
C20_Witness ==
    /\ rphase = "ok"
    /\ Len(rosm.nodes) = 2
    /\ rosm.boundary[1].freeze
    /\ rosm.boundary[1].min.lat /= rosm.boundary[1].min.lon
    /\ rosm.boundary[1].max.lat /= rosm.boundary[1].max.lon

\* The <bounds .../> elements of a document, in document order.
DeclaredBounds(doc) ==
    SelectSeq(doc, LAMBDA e : e.ev = "Empty" /\ e.name = "bounds")

IsNodeEvent(e) == e.name = "node" /\ e.ok

EndsInsideItself(bytes) ==
    /\ bytes /= <<>>
    /\ bytes[Len(bytes)] < 128
    /\ \A i \in 1..(Len(bytes) - 1) : bytes[i] >= 128

\* C27: every unsigned VarInt the encoder produces, for every value including
\* 0, is a non-empty byte sequence in which exactly the last byte has its high
\* bit clear.
C27_UnsignedVarIntEnds ==
    (vi.phase \in {"written", "read"} /\ ~vi.signed) => EndsInsideItself(vi.bytes)

\* C28: decoding a valid VarInt encoding and encoding the number again gives
\* the same bytes, in the unsigned and in the signed layout.
C28_VarIntCanonical ==
    vi.phase = "reencoded" => vi.got = vi.bytes

\* C26: after any sequence of push, reference, get and clear, the string
\* reference table holds at most 15 000 entries and no entry longer than 250
\* bytes.
C26_TableLimits ==
    /\ Len(tbl.table) <= 15000
    /\ \A i \in 1..Len(tbl.table) : Len(tbl.table[i]) <= 250

\* A string of 250 bytes has been put into a table of 15 000 entries, and the
\* oldest entry has left the table.
C26_Witness ==
    /\ tbl.evicted
    /\ Len(tbl.table) = 15000
    /\ Len(tbl.table[1]) = 250

\* C29: with both registers starting at 0, the deltas DeltaState::encode
\* returns for v1..vn, fed in order to DeltaState::decode, return v1..vn, and
\* after every step the two registers hold the same value; for each of the
\* nine registers and all values.
C29_DeltaRoundTrip ==
    dl.phase = "stepped" =>
        /\ ~dl.panic
        /\ dl.out = dl.value
        /\ dl.enc = dl.dec

\* An encode and a decode of value v on register k of the registers delta
\* leave every other register as it is.
OthersKept(delta, k, v) ==
    \A j \in Delta \ {k} :
        /\ DeltaState_encode(delta, k, v).delta[j] = delta[j]
        /\ DeltaState_decode(delta, k, v).delta[j] = delta[j]

\* Members of the three kinds, interleaved, each with a role of its own.
InterleavedMembers ==
    <<RelationMember("Node", 5, <<97>>), RelationMember("Way", 9, <<98>>),
      RelationMember("Node", 7, <<99>>), RelationMember("Relation", 2, <<100>>),
      RelationMember("Way", 4, <<101>>), RelationMember("Node", 1, <<102>>)>>

KindRegister(kind) ==
    CASE kind = "Node" -> "RelNodeRef" [] kind = "Way" -> "RelWayRef"
      [] kind = "Relation" -> "RelRelRef"

\* The id the delta of member i is taken against: the id of the last member of
\* the same kind before it, or what the register of the kind held at the start.
RECURSIVE LastOfKind(_, _, _, _)
LastOfKind(members, i, kind, delta) ==
    IF i = 0 THEN delta[KindRegister(kind)]
    ELSE IF members[i].kind = kind THEN members[i].id
    ELSE LastOfKind(members, i - 1, kind, delta)

\* The deltas delta_rel_member returns for the members in order.
RECURSIVE MemberDeltas(_, _)
MemberDeltas(e, members) ==
    IF members = <<>> THEN <<>>
    ELSE Let(O5mEncoder_delta_rel_member(e, Head(members)), LAMBDA r :
             <<r.v>> \o MemberDeltas(r.e, Tail(members)))

\* The members read_relation_member returns for n calls in a row.
RECURSIVE MembersRead(_, _)
MembersRead(d, n) ==
    IF n = 0 THEN <<>>
    ELSE Let(O5mDecoder_read_relation_member(d), LAMBDA r :
             IF r.st /= "ok" THEN <<r.st>>
             ELSE <<r.v>> \o MembersRead(r.d, n - 1))

\* An encoder with empty string table whose registers are delta.
EncoderAt(delta) == [O5mEncoder_new EXCEPT !.delta = delta]

\* C30: an encode or decode on one delta register leaves the other eight
\* unchanged; the delta of a relation member is taken against the last member
\* id of the same kind only, in the encoder and in the decoder, also when the
\* kinds are interleaved.
C30_DeltaRegistersDisjoint ==
    /\ \A k \in Delta, v \in {0 - 5, 0, 70} :
          OthersKept(writer.encoder.delta, k, v) /\ OthersKept(decoder.delta, k, v)
    /\ \A delta \in {writer.encoder.delta, decoder.delta} :
          /\ MemberDeltas(EncoderAt(delta), InterleavedMembers)
               = [i \in 1..Len(InterleavedMembers) |->
                    InterleavedMembers[i].id
                    - LastOfKind(InterleavedMembers, i - 1, InterleavedMembers[i].kind, delta)]
          /\ MembersRead(
                Reading([decoder EXCEPT !.delta = delta, !.string_table = <<>>],
                        O5mEncoder_write_rel_members(EncoderAt(delta),
                                                     InterleavedMembers).bytes),
                Len(InterleavedMembers)) = InterleavedMembers

\* The reader has decoded node members and relation members of a relation.
C30_Witness ==
    /\ rphase \in {"reading", "ok"}
    /\ decoder.delta["RelNodeRef"] /= 0
    /\ decoder.delta["RelRelRef"] /= 0

\* The ids of every node, way and relation of map o, in one sequence.
AllIds(o) == Ids(o.nodes) \o Ids(o.ways) \o Ids(o.relations)
IdSet(o) == {AllIds(o)[i] : i \in 1..Len(AllIds(o))}

\* The node of map o at coordinate c.
NodesAt(o, c) == SelectSeq(o.nodes, LAMBDA n : n.coordinate = c)

\* A call of add_node on map o with coordinate c: a coordinate the index
\* resolves gives the id of its node and leaves the map alone, another one
\* gives a new node whose id is above every id of the map.
AddNodeReusesOrCreates(o, c) ==
    Let(OsmBuilder_add_node(o, c, <<>>), LAMBDA r :
        IF NodesAt(o, c) /= <<>>
        THEN r.osm = o /\ r.v = NodesAt(o, c)[1].id
        ELSE /\ \A id \in IdSet(o) : r.v > id
             /\ r.osm.nodes = Append(o.nodes, Node(r.v, c, Meta_default))
             /\ r.osm.ways = o.ways /\ r.osm.relations = o.relations)

\* A call of add_polyline on map o: the new way has an id above every id of
\* the map and above the ids of its nodes, and refers to the nodes at its
\* coordinates.
AddPolylineIds(o, cs) ==
    Let(OsmBuilder_add_polyline(o, cs, <<>>), LAMBDA r :
        /\ \A id \in IdSet(o) : r.v > id
        /\ \A i \in 1..Len(cs) :
              /\ Len(NodesAt(r.osm, cs[i])) = 1
              /\ r.osm.ways[Len(r.osm.ways)].refs[i] = NodesAt(r.osm, cs[i])[1].id
              /\ r.v > NodesAt(r.osm, cs[i])[1].id
        /\ r.osm.ways[Len(r.osm.ways)].id = r.v
        /\ Len(r.osm.ways[Len(r.osm.ways)].refs) = Len(cs))

\* C22: OsmBuilder gives every node, way and relation an id above every id it
\* assigned before, starting at 1, so the ids of the built map are pairwise
\* distinct; a coordinate the index resolves creates no node and the id of
\* the node it resolves to is used.
C22_BuilderIds ==
    /\ IdSet(osm) = 1..Len(AllIds(osm))
    /\ osm.max_id = Len(AllIds(osm))
    /\ \A i, j \in 1..Len(osm.nodes) :
          osm.nodes[i].coordinate = osm.nodes[j].coordinate => i = j
    /\ \A c \in BuilderCoordinates \cup {Coordinate(7, 7)} : AddNodeReusesOrCreates(osm, c)
    /\ \A cs \in RingInputs : AddPolylineIds(osm, cs)
    /\ \A parts \in {<<cs, ds>> : cs, ds \in RingInputs} :
          Let(OsmBuilder_add_polygon(osm, parts, <<>>), LAMBDA r :
              /\ \A id \in IdSet(osm) : r.v > id
              /\ \A i \in 1..Len(r.osm.ways) : r.v > r.osm.ways[i].id)

\* The builder has made a closed ring: the way ends on the node it starts
\* with, and a second call has added to the map.
C22_Witness ==
    /\ Len(osm.ways) >= 2
    /\ Len(osm.ways[1].refs) = 4
    /\ osm.ways[1].refs[1] = osm.ways[1].refs[4]
    /\ Len(osm.nodes) >= 4

\* Polygons of one, two and three rings over a closed ring and a line that
\* shares a coordinate with it.
PolygonProbes ==
    SeqsUpTo({ <<Coordinate(1, 1), Coordinate(10, 10), Coordinate(5, 5), Coordinate(1, 1)>>,
               <<Coordinate(5, 5), Coordinate(2, 3)>> }, 3) \ {<<>>}

\* The way add_polygon made for ring i of parts, in the map r it returned,
\* when the map had `before` ways.
RingWay(r, before, i) == r.ways[before + i]

\* Way w refers, in order, to the nodes of map o at the coordinates cs.
WayFollows(o, w, cs) ==
    /\ Len(w.refs) = Len(cs)
    /\ \A j \in 1..Len(cs) :
          /\ NodesAt(o, cs[j]) /= <<>>
          /\ w.refs[j] = NodesAt(o, cs[j])[1].id

\* The members of the relation add_polygon made: Way members only, one per
\* ring, role outer for the way of the first ring and inner for the others.
PolygonMembers(r, before, parts) ==
    LET members == r.relations[Len(r.relations)].members
    IN  /\ Len(members) = Len(parts)
        /\ \A m \in 1..Len(members) : members[m].kind = "Way"
        /\ { <<members[m].id, members[m].role>> : m \in 1..Len(members) }
              = { <<RingWay(r, before, i).id, IF i = 1 THEN StrOuter ELSE StrInner>> :
                    i \in 1..Len(parts) }

\* add_polygon(parts, tags) on map o: one way per ring, in the order of the
\* rings, each over the nodes of its ring and carrying way_tags(tags); no
\* relation for one ring, one relation for more, carrying the tags and then
\* type=multipolygon.
PolygonAdds(o, parts, tags, way_tags(_)) ==
    Let(OsmBuilder_add_polygon(o, parts, tags).osm, LAMBDA r :
        /\ Len(r.ways) = Len(o.ways) + Len(parts)
        /\ SubSeq(r.ways, 1, Len(o.ways)) = o.ways
        /\ \A i \in 1..Len(parts) : WayFollows(r, RingWay(r, Len(o.ways), i), parts[i])
        /\ IF Len(parts) = 1
           THEN /\ r.relations = o.relations
                /\ RingWay(r, Len(o.ways), 1).meta.tags = tags
           ELSE /\ Len(r.relations) = Len(o.relations) + 1
                /\ SubSeq(r.relations, 1, Len(o.relations)) = o.relations
                /\ \A i \in 1..Len(parts) :
                      RingWay(r, Len(o.ways), i).meta.tags = way_tags(tags)
                /\ r.relations[Len(r.relations)].meta.tags
                      = tags \o <<Tag(StrTypeKey, StrMultipolygon)>>
                /\ PolygonMembers(r, Len(o.ways), parts))

\* C23 as amended: add_polygon with one ring adds one way carrying the given
\* tags and no relation; with two or more rings it adds one way without tags
\* per ring and one relation carrying the given tags and type=multipolygon,
\* whose Way members give role outer to the way of the first ring and role
\* inner to the way of every other ring.
C23_PolygonWaysAndRelation ==
    \A parts \in PolygonProbes, tags \in TagInputs :
        PolygonAdds(osm, parts, tags, LAMBDA t : <<>>)

\* C23 as stated: with two or more rings every way of a ring carries the
\* given tags.
C23_PolygonWaysTagged ==
    \A parts \in PolygonProbes, tags \in TagInputs :
        PolygonAdds(osm, parts, tags, LAMBDA t : t)

\* The builder has made a polygon of two rings with a tag: two ways and a
\* relation of two members with two tags.
C23_Witness ==
    /\ Len(osm.relations) >= 1
    /\ Len(osm.relations[1].members) = 2
    /\ Len(osm.relations[1].meta.tags) = 2
    /\ Len(osm.ways) >= 2

\* Values of the type attribute of <member>: the four names, a name in
\* capitals, the empty string and another word.
MemberTypeInputs == {StrNode, StrWay, StrRel, StrRelation, <<78, 111, 100, 101>>, <<>>, StrK}

\* The member a type attribute stands for.
MemberKindOf(t) ==
    CASE t = StrNode -> "Node" [] t = StrWay -> "Way" [] OTHER -> "Relation"

\* C24: the XML reader accepts a <member> whose type is node, way, rel or
\* relation (rel and relation give a Relation member) and rejects every other
\* value with an invalid-data error; every member the XML writer emits is
\* accepted by the reader.
C24_MemberTypes ==
    /\ \A i \in 1..Len(xml.file) : \A j \in 1..Len(xml.file[i].content) :
          xml.file[i].content[j].name = "member" =>
             Attributes_create_relation_member(xml.file[i].content[j].attrs).st = "ok"
    /\ \A t \in MemberTypeInputs :
          Let(Attributes_create_relation_member(
                 <<Attr("type", t), Attr("ref", int_to_string(3)), Attr("role", StrR)>>),
              LAMBDA r :
                 IF t \in {StrNode, StrWay, StrRel, StrRelation}
                 THEN r.st = "ok" /\ r.v = RelationMember(MemberKindOf(t), 3, StrR)
                 ELSE r.st = "err" /\ r.kind = "InvalidData")

\* C25: XmlReader::read of a file XmlWriter::write produced succeeds, and
\* XmlWriter::write of the map it returns reproduces the file.
C25_XmlWriteReadWrite ==
    xml.file /= <<>> /\ xml.phase \in {"ok", "err"} =>
        xml.phase = "ok" /\ XmlWriter_write(xml.osm) = xml.file

\* The ids of the nodes and of the ways of map o.
NodeIds(o) == {o.nodes[i].id : i \in 1..Len(o.nodes)}
WayIds(o) == {o.ways[i].id : i \in 1..Len(o.ways)}

\* C40: after any sequence of add_point, add_polyline and add_polygon every
\* ref of every way of the built map is the id of a node of the map, and
\* every member of every relation is a Way member whose id is the id of a
\* way of the map.
C40_BuilderReferencesResolve ==
    /\ \A i \in 1..Len(osm.ways) : \A j \in 1..Len(osm.ways[i].refs) :
          osm.ways[i].refs[j] \in NodeIds(osm)
    /\ \A i \in 1..Len(osm.relations) : \A m \in 1..Len(osm.relations[i].members) :
          /\ osm.relations[i].members[m].kind = "Way"
          /\ osm.relations[i].members[m].id \in WayIds(osm)

\* The builder has made a polygon of two rings after another element: a
\* relation with members, and ways with refs, one of them to a node that an
\* earlier call made.
C40_Witness ==
    /\ Len(osm.relations) >= 1
    /\ Len(osm.relations[1].members) >= 2
    /\ \E i \in 1..Len(osm.ways) : Len(osm.ways[i].refs) >= 2
    /\ \E i, k \in 1..Len(osm.ways) : i < k /\ \E j \in 1..Len(osm.ways[k].refs) :
          osm.ways[k].refs[j] < osm.ways[i].id

\* The strings reference is asked for: the strings of the harness, and the
\* newest and the oldest entry of the table.
ReferenceProbes ==
    TableStrings \cup (IF tbl.table = <<>> THEN {}
                       ELSE {tbl.table[1], tbl.table[Len(tbl.table)]})

\* C31: StringReferenceTable::reference(b), for b of at most 250 bytes,
\* returns the unsigned VarInt of k when b is at position k counted from the
\* most recently inserted entry and leaves the table unchanged; otherwise it
\* returns b and inserts b at the front, dropping the oldest entry of a table
\* of 15 000 entries; for a longer b it returns b and leaves the table
\* unchanged.
C31_Reference ==
    \A b \in ReferenceProbes :
        LET r == StringReferenceTable_reference(tbl.table, b)
            at == {k \in 1..Len(tbl.table) : tbl.table[k] = b}
        IN  IF Len(b) > 250 THEN r.bytes = b /\ r.table = tbl.table
            ELSE IF at /= {}
            THEN /\ \E k \in at : r.bytes = VarInt_from_u64(k)
                 /\ r.table = tbl.table
            ELSE /\ r.bytes = b
                 /\ r.table[1] = b
                 /\ Tail(r.table) = IF Len(tbl.table) = 15000
                                     THEN SubSeq(tbl.table, 1, 14999) ELSE tbl.table

\* reference has returned a token for a string it put into a table of 15 000
\* entries.
C31_Witness ==
    /\ tbl.last = "reference"
    /\ tbl.out = <<1>>
    /\ Len(tbl.table) = 15000
    /\ Len(tbl.table[1]) <= 250

\* The reader stands in front of a reset dataset.
AtReset ==
    /\ rphase = "reading"
    /\ decoder.inner.off < Len(decoder.inner.data)
    /\ decoder.inner.data[decoder.inner.off + 1] = O5M_RESET

\* A round of the loop of read in front of a reset dataset leaves the string
\* table empty, the nine delta registers at 0 and the map as it was, and goes
\* on reading behind the dataset.
ResetStep ==
    AtReset =>
        /\ decoder'.string_table = <<>>
        /\ \A k \in Delta : decoder'.delta[k] = 0
        /\ rosm' = rosm
        /\ rphase' = "reading"
        /\ decoder'.inner.off = decoder.inner.off + 1

\* C32: whenever the decoder processes a reset dataset (0xFF), at any
\* position between datasets, afterwards its string table is empty and all
\* nine delta registers are 0, and the nodes, ways, relations and boundary
\* decoded so far are unchanged.
C32_ResetDataset == [][ResetStep]_vars

\* The decoder has processed a reset behind a node with a tag: the node is in
\* the map, the table and the registers are empty.
C32_Witness ==
    /\ rphase = "reading"
    /\ decoder.inner.off >= 1
    /\ decoder.inner.data[decoder.inner.off] = O5M_RESET
    /\ Len(rosm.nodes) >= 1
    /\ rosm.nodes[1].meta.tags /= <<>>
    /\ rosm.nodes[1].id /= 0
    /\ decoder.string_table = <<>>
    /\ decoder.delta["Id"] = 0

\* position() of decoder d is the number of bytes taken from its stream.
PositionIsConsumed(d) == O5mDecoder_position(d) = d.inner.off

\* C34: at every point of decoding position() equals the number of bytes the
\* decoder has consumed from the stream, across every change of budget (type
\* code, length prefix, payload, way ref section, member section), and the N
\* of "Ending at byte N: " is the number of bytes consumed when the error was
\* raised.
C34_PositionIsBytesConsumed ==
    /\ PositionIsConsumed(decoder)
    /\ rphase = "reading" =>
          /\ PositionIsConsumed(O5mReader_read_set_type(decoder).d)
          /\ PositionIsConsumed(O5mDecoder_read_limit(O5mReader_read_set_type(decoder).d).d)
          /\ Let(O5mReader_parse_next(decoder, rosm), LAMBDA r :
                 /\ PositionIsConsumed(r.d)
                 /\ r.st = "parse" =>
                       ReadError(r).display
                         = "Ending at byte " \o ToString(r.d.inner.off) \o ": " \o r.msg)

\* read has failed inside the member section of a relation, 18 bytes into
\* the stream, after the budgets of the type code, the length prefix, the
\* payload and the section.
C34_Witness ==
    /\ rphase = "err"
    /\ decoder.inner.data = TestInvalidMemberType
    /\ decoder.inner.off = 18
    /\ rerr.display = "Ending at byte 18: Invalid relation member type '5'."

\* The reader stands in front of a node, way or relation dataset whose
\* length prefix can be read.
AtElement ==
    /\ rphase = "reading"
    /\ O5mReader_read_set_type(decoder).st = "ok"
    /\ O5mReader_read_set_type(decoder).v \in {O5M_NODE, O5M_WAY, O5M_RELATION}
    /\ O5mDecoder_read_limit(O5mReader_read_set_type(decoder).d).st = "ok"

\* The number of bytes of the stream up to the end of the payload of that
\* dataset.
PayloadEnd ==
    Let(O5mDecoder_read_limit(O5mReader_read_set_type(decoder).d).d, LAMBDA d :
        d.inner.off + d.limit)

\* C35: for every input, while decoding a node, way or relation dataset the
\* decoder consumes no byte beyond the declared payload: the sections of way
\* refs and members stay inside the payload, the budget behind a section is
\* what is left of the payload, and the next type code is the byte that
\* follows the payload.
C35_WithinPayload ==
    AtElement =>
        Let(O5mReader_parse_next(decoder, rosm), LAMBDA r :
            /\ r.d.inner.off <= PayloadEnd
            /\ r.st = "ok" /\ PayloadEnd <= Len(decoder.inner.data) =>
                  r.d.inner.off = PayloadEnd)

\* What a writer whose encoder is fresh emits for one group of elements.
FreshNodes(nodes) == WriteNodes(O5mWriter_new, nodes).inner
FreshWays(ways) == WriteWays(O5mWriter_new, ways).inner
FreshRelations(rels) == WriteRelations(O5mWriter_new, rels).inner

\* The stream of a map in which every group is encoded from an empty string
\* table and zeroed deltas.
GroupsFromScratch(o) ==
    <<O5M_RESET, O5M_HEADER>> \o O5M_HEADER_DATA
    \o (IF IsSome(o.boundary)
        THEN O5mWriter_write_bounding_box(O5mWriter_new, o.boundary[1]).inner
        ELSE <<>>)
    \o <<O5M_RESET>> \o FreshNodes(o.nodes)
    \o <<O5M_RESET>> \o FreshWays(o.ways)
    \o <<O5M_RESET>> \o FreshRelations(o.relations)
    \o <<O5M_EOF>>

\* C33: every group of the written stream is encoded from an empty string
\* table and zeroed delta registers (no reference token reaches behind the
\* group's reset, the first id of the group is absolute), and a second write
\* by the same writer appends a stream that starts from scratch as well.
C33_GroupsStartFromScratch ==
    writer.inner /= <<>> =>
        /\ writer.inner = GroupsFromScratch(osm)
        /\ O5mWriter_write(writer, osm).inner = writer.inner \o GroupsFromScratch(osm)

\* A map with elements in two groups has been written and the writer's
\* encoder is left with strings in its table and a nonzero id register.
C33_Witness ==
    /\ writer.inner /= <<>>
    /\ Len(osm.nodes) >= 1 /\ Len(osm.ways) + Len(osm.relations) >= 1
    /\ writer.encoder /= O5mEncoder_new
    /\ \E i \in 1..Len(osm.nodes) : osm.nodes[i].meta.tags /= <<>>

\* The encoder after the writer wrote the elements that map o holds in the
\* group of the last element of map r, up to that element.
EncoderAfter(o, r) ==
    IF r.relations /= <<>>
    THEN WriteRelations(O5mWriter_new, SubSeq(o.relations, 1, Len(r.relations))).encoder
    ELSE IF r.ways /= <<>>
    THEN WriteWays(O5mWriter_new, SubSeq(o.ways, 1, Len(r.ways))).encoder
    ELSE WriteNodes(O5mWriter_new, SubSeq(o.nodes, 1, Len(r.nodes))).encoder

\* An entry of the encoder's table without the zero bytes that frame it.
Unframed(bytes) == SubSeq(bytes, 2, Len(bytes) - 1)

\* The table of the decoder holds at every position the string that the table
\* of the encoder holds there.
SameTable(dec, enc) ==
    /\ Len(dec) = Len(enc)
    /\ \A k \in 1..Len(enc) : dec[k] = Unframed(enc[k])

\* C36: reading a stream of the writer, after each dataset the table of the
\* decoder has as many entries as the table of the encoder had after writing
\* that dataset, and each position holds the same string in both.
C36_TablesAgree ==
    AtElement =>
        Let(O5mReader_parse_next(decoder, rosm), LAMBDA r :
            r.st = "ok" =>
                SameTable(r.d.string_table, EncoderAfter(osm, r.osm).string_table))

\* The decoder that has read what encoder e has written: the same registers
\* and the same strings in the table.
DecoderOf(e) ==
    [O5mDecoder_new(<<>>, TRUE) EXCEPT
        !.delta = e.delta,
        !.string_table = [k \in 1..Len(e.string_table) |-> Unframed(e.string_table[k])]]

\* Metas with version and author, with a version and no author, without a
\* version.
MetaProbes ==
    { Meta(<<>>, Some(2), Some(AuthorA)),
      Meta(<<>>, Some(4), Some(AuthorB)),
      Meta(<<>>, Some(1), None),
      Meta_default }

\* The encoders after each group of map o was written from a reset.
GroupEncoders(o) ==
    { WriteNodes(O5mWriter_new, o.nodes).encoder,
      WriteWays(O5mWriter_new, o.ways).encoder,
      WriteRelations(O5mWriter_new, o.relations).encoder }

\* read_meta gives back the version and the author that write_meta wrote as
\* the next entity of the group, and consumes the bytes of write_meta only.
MetaRoundTrip(e, meta) ==
    Let(O5mEncoder_write_meta(e, meta).bytes, LAMBDA bytes :
    Let(O5mReader_read_meta(Reading(DecoderOf(e), bytes \o <<2, 4>>)), LAMBDA r :
        /\ r.st = "ok"
        /\ r.v.version = meta.version
        /\ r.v.author = meta.author
        /\ r.d.inner.off = Len(bytes)))

\* C37: behind every sequence of entities written after a reset, an entity
\* with version and author, with a version and no author, or without a
\* version is decoded with author information exactly when it was written
\* with it, with the same created, change_set, uid and user, and read_meta
\* consumes exactly the bytes write_meta wrote.
C37_AuthorRoundTrip ==
    writer.inner /= <<>> =>
        \A e \in GroupEncoders(osm), meta \in MetaProbes : MetaRoundTrip(e, meta)

\* The member the XML reader creates for <member type=t ref=id/>, an element
\* without role attribute.
MemberWithoutRole(t, id) ==
    Attributes_create_relation_member(
        <<Attr("type", t), Attr("ref", int_to_string(id))>>).v

\* The member that the decoder reads from what encoder e writes for member m.
MemberRoundTrip(e, m) ==
    Let(O5mDecoder_read_relation_member(
            Reading(DecoderOf(e), O5mEncoder_write_rel_members(e, <<m>>).bytes)),
        LAMBDA r : r.st = "ok" /\ r.v = m)

\* C38: a relation member with the empty role, as the XML reader creates it
\* for a member element without role attribute, is written by the o5m encoder
\* and read back by the o5m decoder as a member of the same kind with the
\* same id and the empty role.
C38_EmptyRoleRoundTrip ==
    writer.inner /= <<>> =>
        \A t \in {StrNode, StrWay, StrRel}, id \in {3, 70} :
            /\ MemberWithoutRole(t, id).role = <<>>
            /\ MemberRoundTrip(writer.encoder, MemberWithoutRole(t, id))

\* Weak fairness of the loop of read: read calls parse_next again after every
\* Ok(true) and nothing else runs in between.  This is WF_vars(ParseNext) with
\* ENABLED <<ParseNext>>_vars written out: a round is possible exactly while
\* the reader is reading, and it changes the state (TopLevelStepConsumes).
ReadGoesOn == []<>(rphase /= "reading") \/ []<><<ParseNext>>_vars

\* A reader over bytes of any origin whose loop goes on.
SpecDecodeLive == Init /\ [][NextDecode]_vars /\ ReadGoesOn

\* The bytes of the input that the decoder has not consumed.
BytesLeft(d) == Len(d.inner.data) - d.inner.off

\* A round of the loop of read that returns Ok(true) has consumed the type
\* code at least.
TopLevelStepConsumes ==
    rphase = "reading" =>
        Let(O5mReader_parse_next(decoder, rosm), LAMBDA r :
            r.st = "ok" /\ r.v => BytesLeft(r.d) < BytesLeft(decoder))

\* With any byte budget set at the place of the decoder, a call of each
\* callback of read_until_eof that returns Ok has consumed a byte at least,
\* and the loop ends inside the budget and inside the input.
IterationsConsume ==
    rphase = "reading" =>
        \A item \in {"tag", "way_ref", "member", "skip"}, budget \in 0..BytesLeft(decoder) :
            Let(O5mDecoder_set_limit(decoder, budget), LAMBDA d :
                /\ ReadItem(d, item).st = "ok" => BytesLeft(ReadItem(d, item).d) < BytesLeft(d)
                /\ BytesLeft(O5mDecoder_read_until_eof(d, item).d) >= BytesLeft(d) - budget
                /\ BytesLeft(O5mDecoder_read_until_eof(d, item).d) >= 0)

\* C39: read ends on every finite input, by a result or a panic: a round of
\* its loop that goes on has consumed the type code at least, an iteration of
\* read_until_eof that goes on has consumed a byte at least, an inner loop
\* ends inside its byte budget and the input, and every read that was started
\* leaves the loop.
C39_ReadTerminates ==
    /\ [](TopLevelStepConsumes /\ IterationsConsume)
    /\ (rphase = "reading") ~> (rphase \in {"ok", "err", "panic"})

\* The reader went several rounds over an input with a section read by
\* read_until_eof and has left the loop.
C39_Witness ==
    /\ rphase \in {"ok", "err", "panic"}
    /\ decoder.inner.off >= 3
    /\ Len(decoder.inner.data) > MaxInputLen

====
